---- MODULE Spec2Model ----
(***************************************************************************)
(* The exam-notes portal: the student-activity route (activity log), and   *)
(* the exam route (nested Exam -> Subject -> Chapter documents, external   *)
(* file storage).                                                          *)
(*                                                                         *)
(* Conventions of the translation                                          *)
(*   - a JavaScript string that is absent, null or "" is the string "":    *)
(*     the handlers only test such values with `!x`;                       *)
(*   - an absent number (undefined, null) is NoNum, and a value that       *)
(*     cannot be cast to a number is NotANumber;                           *)
(*   - an optional object is a sequence of length 0 (absent) or 1;         *)
(*   - a request that awaits the database is split at the awaits that      *)
(*     other requests can observe: everything up to the last read is one   *)
(*     step, the final save() is another;                                  *)
(*   - resp is the HTTP response produced by the step just taken, or       *)
(*     NoResp when that step produced none.                                *)
(***************************************************************************)
EXTENDS Integers, Sequences, FiniteSets, TLC

VARIABLES
    activities,   \* the StudentActivity collection, in insertion order
    now,          \* the server clock read by `new Date()`
    nextActId,    \* number of activity documents created so far (_id source)
    exams,        \* the Exam collection, in insertion order (_id = position)
    cloud,        \* public ids of the files held by the external file store
    nextFile,     \* number of files uploaded so far (public id source)
    pending,      \* exam-route requests that have read and not yet saved
    gen,          \* the generateContent call in flight: chunk requests and result
    resp,         \* response of the step just taken
    page,         \* React state of the Exams component
    calls,        \* requests of the Exams component that await their response
    courses       \* React state of the Courses component and its requests in flight

activityVars == <<activities, now, nextActId>>
examVars == <<exams, cloud, nextFile, pending, gen>>
clientVars == <<page, calls, courses>>
vars ==
    <<activities, now, nextActId, exams, cloud, nextFile, pending, gen, resp,
      page, calls, courses>>

----------------------------------------------------------------------------
(* Value domains *)

NoNum == -1

\* A JSON value that cannot be cast to a number, such as the string "one"
NotANumber == -2
NoResp == [op |-> "none"]

UserIds == {"u1", "u2"}
UserNames == {"Ann"}
ExamNames == {"GATE"}
SubjectNames == {"Physics", "Math"}
ChapterNumbers == {1, 2}
ActivityTypes == {"notes_access", "quiz_submission"}

QuizResults == {[score |-> 1, totalQuestions |-> 2, answers |-> <<"Paris", "Berlin">>]}

----------------------------------------------------------------------------
(* Helpers *)

Range(s) == {s[i] : i \in 1..Len(s)}

Min(a, b) == IF a < b THEN a ELSE b

\* All orderings of a finite set, as sequences without repetition
Perms(S) ==
    {s \in [1..Cardinality(S) -> S] : \A i, j \in 1..Cardinality(S) : s[i] = s[j] => i = j}

----------------------------------------------------------------------------
(* Activity route: POST *)

\* Mutant: the userName check is forgotten
MissingFieldsButName(body) ==
    \/ body.userId = ""
    \/ body.exam = ""
    \/ body.subject = ""
    \/ body.chapterNumber = NoNum
    \/ body.activityType = ""

\* route.ts 19-26: the required-field test
MissingFields(body) ==
    \/ body.userId = ""
    \/ body.userName = ""
    \/ body.exam = ""
    \/ body.subject = ""
    \/ body.chapterNumber = NoNum
    \/ body.activityType = ""

\* route.ts 41: the activity kind test
ValidActivityType(t) == t \in {"notes_access", "quiz_submission"}

\* route.ts 59-61: quizResult is copied only for a quiz_submission that has one
StoredQuizResult(body) ==
    IF body.activityType = "quiz_submission" /\ body.quizResult # <<>>
    THEN body.quizResult
    ELSE <<>>

\* route.ts 49-63: the document handed to StudentActivity.create
BuildActivity(body, id, t) ==
    [id |-> id,
     userId |-> body.userId,
     userName |-> body.userName,
     exam |-> body.exam,
     subject |-> body.subject,
     chapterNumber |-> body.chapterNumber,
     activityType |-> body.activityType,
     quizResult |-> StoredQuizResult(body),
     timestamp |-> t]

\* studentexam.ts 36-39: StudentActivity.create validates the document against
\* the schema, and chapterNumber must cast to a Number
CastsToSchema(body) == body.chapterNumber # NotANumber

\* route.ts 5-84; times: what `new Date()` can return
ActivityPOST(body, times) ==
    /\ IF MissingFields(body)
       THEN /\ resp' = [op |-> "activityPOST", status |-> 400, body |-> body,
                        message |-> "Missing required fields"]
            /\ UNCHANGED <<activities, now, nextActId, examVars>>
       ELSE IF ~ValidActivityType(body.activityType)
       THEN /\ resp' = [op |-> "activityPOST", status |-> 400, body |-> body,
                        message |-> "Invalid activity type"]
            /\ UNCHANGED <<activities, now, nextActId, examVars>>
       ELSE IF ~CastsToSchema(body)
       THEN /\ resp' = [op |-> "activityPOST", status |-> 500, body |-> body,
                        message |-> "Error logging activity"]
            /\ UNCHANGED <<activities, now, nextActId, examVars>>
       ELSE \E t \in times :
            LET activity == BuildActivity(body, nextActId + 1, t) IN
            /\ activities' = Append(activities, activity)
            /\ nextActId' = nextActId + 1
            /\ now' = t
            /\ resp' = [op |-> "activityPOST", status |-> 201, body |-> body,
                       activity |-> activity]
            /\ UNCHANGED examVars

----------------------------------------------------------------------------
(* Activity route: GET *)

\* route.ts 91: only the literal string "true" grants admin scope
IsAdmin(query) == query.isAdmin = "true"

\* route.ts 93: neither admin nor user
Unauthorized(query) == ~IsAdmin(query) /\ query.userId = ""

\* Mutant: the userId filter is applied to an admin query too
MatchesFiltersAdmin(query, a) ==
    IF query.userId # "" THEN a.userId = query.userId ELSE TRUE

\* Mutant: the userId filter is never applied
MatchesEverything(query, a) == TRUE

\* route.ts 101-104: the Mongo filter; the empty filter matches every document
Matches(query, a) ==
    IF query.userId # "" /\ ~IsAdmin(query) THEN a.userId = query.userId ELSE TRUE

\* route.ts 106-108: .sort({timestamp: -1})
SortedNewestFirst(s) ==
    \A i \in 1..(Len(s) - 1) : s[i].timestamp >= s[i + 1].timestamp

\* Mutant: the records come back in the reverse of the order they were appended in
FindLastAppendedFirst(query) ==
    LET Matching(a) == Matches(query, a)
        kept == SelectSeq(activities, Matching)
    IN  {[k \in 1..Len(kept) |-> kept[Len(kept) + 1 - k]]}

\* route.ts 106-108: find(query).sort(...). The order of documents with equal
\* timestamps is not fixed by the sort, so every sorted ordering is possible.
FindActivities(query) ==
    {s \in Perms({a \in Range(activities) : Matches(query, a)}) : SortedNewestFirst(s)}

ActivityGET(query) ==
    /\ IF Unauthorized(query)
       THEN resp' = [op |-> "activityGET", status |-> 401, query |-> query,
                     message |-> "Unauthorized: userId or admin access required"]
       ELSE \E found \in FindActivities(query) :
            resp' = [op |-> "activityGET", status |-> 200, query |-> query,
                     activities |-> found]
    /\ UNCHANGED <<activities, now, nextActId, examVars, clientVars>>

----------------------------------------------------------------------------
(* Exam route: values *)

\* String.prototype.trim on the subject names and generated texts of the model
Trim(s) ==
    CASE s = " " -> "" [] s = "Math " -> "Math"
      [] s = "A " -> "A" [] s = " A" -> "A"
      [] OTHER -> s

FallbackSummary == "Summary generation failed."
PlaceholderText == "Text extraction failed."

Question ==
    [question |-> "What is the capital of France?",
     options |-> <<"Berlin", "Paris">>,
     answer |-> "Paris"]

Idle == [kind |-> "idle"]

ChaptersOf(doc) ==
    UNION {Range(doc.subjects[i].chapters) : i \in 1..Len(doc.subjects)}

FilesOf(doc) == {c.publicId : c \in ChaptersOf(doc)}

\* Mutant: find returns the first element whether or not it passed
FirstAny(passed) == IF Len(passed) > 0 THEN 1 ELSE 0

\* Array.prototype.find / findIndex over the test results of the elements:
\* position of the first element that passed, 0 if none
FirstTrue(passed) ==
    IF \E i \in 1..Len(passed) : passed[i]
    THEN CHOOSE i \in 1..Len(passed) : passed[i] /\ \A j \in 1..(i - 1) : ~passed[j]
    ELSE 0

\* Exam.findOne({exam}): the first document of the collection with that name
FindOne(name) == FirstTrue([n \in 1..Len(exams) |-> exams[n].exam = name])

\* Lowest free request slot, 0 if none
FreeSlot ==
    IF \E i \in DOMAIN pending : pending[i] = Idle
    THEN CHOOSE i \in DOMAIN pending : pending[i] = Idle /\ \A j \in 1..(i - 1) : pending[j] # Idle
    ELSE 0

----------------------------------------------------------------------------
(* Content generator: generateContent *)

\* studentexam.ts 121-131: the static value returned when the call fails
FallbackQuizText ==
    "{\"quiz\":[{\"question\":\"What is the capital of France?\",\"options\":[\"Berlin\",\"Madrid\",\"Paris\",\"Rome\"],\"answer\":\"Paris\"}]}"

Fallback(type) == IF type = "summary" THEN FallbackSummary ELSE FallbackQuizText

\* A chunk request that has not completed
Waiting == [kind |-> "waiting", text |-> ""]

NoCall == [type |-> "none", replies |-> <<>>, order |-> <<>>, result |-> <<>>]

\* Array.prototype.join(" ")
RECURSIVE Join(_)
Join(texts) ==
    IF texts = <<>> THEN ""
    ELSE IF Len(texts) = 1 THEN texts[1]
    ELSE texts[1] \o " " \o Join(Tail(texts))

\* studentexam.ts 116: result?.candidates?.[0]?.content?.parts?.[0]?.text || ""
CandidateText(reply) == IF reply.kind = "text" THEN reply.text ELSE ""

\* Mutant: the texts are joined in the order the requests completed
CombinedInCompletionOrder(call) ==
    Join([k \in 1..Len(call.order) |-> CandidateText(call.replies[call.order[k]])])

\* studentexam.ts 115-118: Promise.all yields the replies by chunk index
CombinedText(call) ==
    Join([k \in 1..Len(call.replies) |-> CandidateText(call.replies[k])])

\* Mutant: a failed chunk request counts as an empty text
ReturnedIgnoringErrors(call) ==
    IF \E k \in 1..Len(call.replies) : call.replies[k] = Waiting
    THEN <<>>
    ELSE <<CombinedText(call)>>

\* studentexam.ts 102-132: what the call has returned, if anything, given the
\* replies so far: Promise.all rejects with the first failed request and
\* resolves once every request has succeeded
Returned(call) ==
    IF \E k \in 1..Len(call.replies) : call.replies[k].kind = "error"
    THEN <<Fallback(call.type)>>
    ELSE IF \E k \in 1..Len(call.replies) : call.replies[k] = Waiting
    THEN <<>>
    ELSE <<CombinedText(call)>>

\* studentexam.ts 94-133 with every chunk request completed: the returned text
GenerateContent(type, replies) ==
    Returned([type |-> type, replies |-> replies, order |-> <<>>, result |-> <<>>])[1]

\* A quiz as the service writes it: a valid entry followed by an entry with one option
GeneratedQuizText ==
    "{\"quiz\":[{\"question\":\"Q\",\"options\":[\"X\",\"Y\"],\"answer\":\"X\"},{\"question\":\"Pick one\",\"options\":[\"Yes\"],\"answer\":\"Yes\"}]}"

\* JSON values: what JSON.parse yields. A property an object does not have reads as JAbsent
JString(text) == [type |-> "string", text |-> text]
JNumber == [type |-> "number"]
JNull == [type |-> "null"]
JAbsent == [type |-> "undefined"]
JArray(items) == [type |-> "array", items |-> items]
JEntry(question, options, answer) ==
    [type |-> "object", question |-> question, options |-> options, answer |-> answer]
JQuiz(quiz) == [type |-> "object", quiz |-> quiz]

\* The quiz entries of the model: two that are well formed, six objects that
\* are not, null, and a number
QuizEntries ==
    {JEntry(JString("Q"), JArray(<<JString("X"), JString("Y")>>), JString("X")),
     JEntry(JString("What is the capital of France?"),
            JArray(<<JString("Berlin"), JString("Madrid"), JString("Paris"), JString("Rome")>>),
            JString("Paris")),
     JEntry(JString("Pick one"), JArray(<<JString("Yes")>>), JString("Yes")),
     JEntry(JString("N"), JArray(<<JNumber, JNumber>>), JString("X")),
     JEntry(JString(""), JArray(<<JString("X"), JString("Y")>>), JString("X")),
     JEntry(JNumber, JArray(<<JString("X"), JString("Y")>>), JString("X")),
     JEntry(JString("Q"), JArray(<<JString("X"), JString("Y")>>), JAbsent),
     JEntry(JString("Q"), JString("XY"), JString("X")),
     JNull,
     JNumber}

\* The longest quiz list of a generated text
MaxQuizLen == 2

QuizLists == UNION {[1..n -> QuizEntries] : n \in 0..MaxQuizLen}

\* The values a generated text can hold: not an object, an object without a
\* quiz, a quiz that is not a list, a quiz list
JsonValues ==
    {JNull, JNumber, JArray(<<>>), [type |-> "object"], JQuiz(JString("none"))}
    \cup {JQuiz(JArray(list)) : list \in QuizLists}

\* Array.prototype.join(",")
RECURSIVE JoinComma(_)
JoinComma(texts) ==
    IF texts = <<>> THEN ""
    ELSE IF Len(texts) = 1 THEN texts[1]
    ELSE texts[1] \o "," \o JoinComma(Tail(texts))

\* JSON.stringify: the text of a JSON value; absent properties are left out
RECURSIVE Stringify(_)
Stringify(value) ==
    CASE value.type = "string" -> "\"" \o value.text \o "\""
      [] value.type = "number" -> "7"
      [] value.type = "null" -> "null"
      [] value.type = "array" ->
            "[" \o JoinComma([k \in 1..Len(value.items) |-> Stringify(value.items[k])]) \o "]"
      [] value.type = "object" ->
            LET Has(key) == key \in DOMAIN value /\ value[key].type # "undefined"
                keys == SelectSeq(<<"quiz", "question", "options", "answer">>, Has)
            IN  "{" \o JoinComma([k \in 1..Len(keys) |->
                                    "\"" \o keys[k] \o "\":" \o Stringify(value[keys[k]])])
                \o "}"

\* JSON.parse on the texts of the model: the texts that parse are the texts
\* of the values of the model, and each parses to its value
JsonTexts == {Stringify(value) : value \in JsonValues}

JsonValue(text) == CHOOSE value \in JsonValues : Stringify(value) = text

\* A code fence is written ''' here: a string of this module cannot hold a backquote
FenceOpen == "'''json "
FenceClose == " '''"

\* What a generated text holds before its first "{" and after its last "}"
Leads == {"", " ", "A ", "Here is the quiz: ", FenceOpen}
Trails == {"", " ", " A", " Enjoy!", FenceClose}

\* The texts of the model that run from a "{" to a "}", and the trimmed texts that hold no brace
BracedTexts ==
    {text \in JsonTexts : text \notin {"null", "7", "[]"}}
    \cup {GeneratedQuizText \o " " \o GeneratedQuizText, "{quiz}"}
PlainTexts == {"", "A", "A A", "null", "7", "[]", "Here is the quiz: null"}

\* studentexam.ts 136-144: the fences are removed, the text is trimmed, and it
\* is cut down to the span from the first "{" to the last "}" when there is one
CleanQuizData(quizData) ==
    IF \E p \in Leads, q \in Trails, core \in BracedTexts : quizData = p \o core \o q
    THEN CHOOSE core \in BracedTexts :
             \E p \in Leads, q \in Trails : quizData = p \o core \o q
    ELSE IF \E p \in {"", " ", FenceOpen}, q \in {"", " ", FenceClose}, core \in PlainTexts :
                quizData = p \o core \o q
    THEN CHOOSE core \in PlainTexts :
             \E p \in {"", " ", FenceOpen}, q \in {"", " ", FenceClose} :
                quizData = p \o core \o q
    ELSE quizData

\* Reading a property of a value that is not null: a value that is not an
\* object, or has no such property, gives undefined
Prop(value, key) ==
    IF value.type = "object" /\ key \in DOMAIN value THEN value[key] ELSE JAbsent

\* A value that is a string and is not empty (truthy, and typeof "string")
NonEmptyString(value) == value.type = "string" /\ value.text # ""

\* studentexam.ts 154-164: the shape test of one generated quiz entry
ValidGeneratedItem(item) ==
    /\ NonEmptyString(Prop(item, "question"))
    /\ Prop(item, "options").type = "array"
    /\ Len(Prop(item, "options").items) >= 2
    /\ NonEmptyString(Prop(item, "answer"))

\* studentexam.ts 155: reading item.question of a null entry throws a TypeError
FilterThrows(items) == \E k \in 1..Len(items) : items[k].type = "null"

\* studentexam.ts 151: the parsed value is an object whose quiz is a list
HasQuizList(parsed) == parsed.type # "null" /\ Prop(parsed, "quiz").type = "array"

\* Mutant: what failed to parse is replaced by the placeholder question
ParseQuizDataOrPlaceholder(quizData) ==
    LET cleaned == CleanQuizData(quizData) IN
    IF cleaned \notin JsonTexts \/ ~HasQuizList(JsonValue(cleaned))
    THEN <<Question>>
    ELSE IF FilterThrows(JsonValue(cleaned).quiz.items)
    THEN <<>>
    ELSE SelectSeq(JsonValue(cleaned).quiz.items, ValidGeneratedItem)

\* studentexam.ts 147-169: the entries kept from a generated quiz text; the
\* empty list when the text does not parse (150), when the value holds no quiz
\* list (151-153), and when the filter throws (165-168)
ParseQuizData(quizData) ==
    LET cleaned == CleanQuizData(quizData) IN
    IF cleaned \notin JsonTexts \/ ~HasQuizList(JsonValue(cleaned))
    THEN <<>>
    ELSE IF FilterThrows(JsonValue(cleaned).quiz.items)
    THEN <<>>
    ELSE SelectSeq(JsonValue(cleaned).quiz.items, ValidGeneratedItem)

\* A call of parseQuizData on a generated text
Sanitize(quizData) ==
    /\ resp' = [op |-> "parseQuizData", quizData |-> quizData,
                result |-> ParseQuizData(quizData)]
    /\ UNCHANGED <<activityVars, examVars, clientVars>>

\* studentexam.ts 94-113: the text is cut into n chunks and one request is sent for each
GenStart(type, n) ==
    /\ gen.type = "none" \/ gen.result # <<>>
    /\ LET call == [type |-> type, replies |-> [k \in 1..n |-> Waiting],
                    order |-> <<>>, result |-> <<>>]
       IN  gen' = [call EXCEPT !.result = Returned(call)]
    /\ resp' = NoResp
    /\ UNCHANGED <<activityVars, exams, cloud, nextFile, pending, clientVars>>

\* studentexam.ts 109-112, 119: the request of chunk k completes; what the
\* call returned before stays returned
ChunkReply(k, reply) ==
    /\ gen.type # "none"
    /\ k \in 1..Len(gen.replies)
    /\ gen.replies[k] = Waiting
    /\ LET call == [gen EXCEPT !.replies[k] = reply, !.order = Append(@, k)]
       IN  gen' = [call EXCEPT !.result = IF gen.result # <<>> THEN gen.result
                                          ELSE Returned(call)]
    /\ resp' = NoResp
    /\ UNCHANGED <<activityVars, exams, cloud, nextFile, pending, clientVars>>

----------------------------------------------------------------------------
(* Exam route: POST *)

\* studentexam.ts 185: a subject without a name or without chapters is skipped
SkippedSubject(subject) == Trim(subject.name) = "" \/ Len(subject.chapters) = 0

\* The (subject index, chapter index) slots whose file is uploaded: studentexam.ts 192-196
UploadSlots(form) ==
    {<<si, ci>> \in (1..Len(form.subjects)) \X (1..2) :
        /\ ~SkippedSubject(form.subjects[si])
        /\ ci <= Len(form.subjects[si].chapters)
        /\ form.subjects[si].chapters[ci].file}

\* Rank of a slot among the upload slots, in request order
SlotRank(form, si, ci) ==
    Cardinality({p \in UploadSlots(form) : p[1] < si \/ (p[1] = si /\ p[2] <= ci)})

\* Mutant: a chapter whose summary generation failed aborts the request
UploadOrGenerationFailed(outcome) ==
    outcome.upload # "ok" \/ outcome.summary = FallbackSummary

\* Mutant: a failed upload is not noticed
UploadNeverFails(outcome) == outcome.upload = "unnoticed"

\* studentexam.ts 206-217: the upload threw, or returned no url / public_id
UploadFailed(outcome) == outcome.upload # "ok"

\* studentexam.ts 222-241: the chapter record built from an uploaded file
ProcessChapter(chapter, publicId, outcome) ==
    [chapterNumber |-> chapter.chapterNumber,
     notesFileUrl |-> publicId,
     publicId |-> publicId,
     summary |-> outcome.summary,
     quiz |-> outcome.quiz]

\* Mutant: only the first chapter that had a file is kept
ValidChaptersFirstOnly(form, si, env, base) ==
    LET chapters == form.subjects[si].chapters
        HasFile(ci) == chapters[ci].file
        kept == SelectSeq([ci \in 1..Len(chapters) |-> ci], HasFile)
    IN  [k \in 1..Min(1, Len(kept)) |->
            ProcessChapter(chapters[kept[k]],
                           base + SlotRank(form, si, kept[k]),
                           env[SlotRank(form, si, kept[k])])]

\* studentexam.ts 190-245: the chapters of one subject that had a file, in request order
ValidChapters(form, si, env, base) ==
    LET chapters == form.subjects[si].chapters
        HasFile(ci) == chapters[ci].file
        kept == SelectSeq([ci \in 1..Len(chapters) |-> ci], HasFile)
    IN  [k \in 1..Len(kept) |->
            ProcessChapter(chapters[kept[k]],
                           base + SlotRank(form, si, kept[k]),
                           env[SlotRank(form, si, kept[k])])]

\* studentexam.ts 183-258: the subjects that have a name and at least one valid chapter
ValidSubjects(form, env, base) ==
    LET Valid(si) == /\ ~SkippedSubject(form.subjects[si])
                     /\ Len(ValidChapters(form, si, env, base)) > 0
        kept == SelectSeq([si \in 1..Len(form.subjects) |-> si], Valid)
    IN  [k \in 1..Len(kept) |->
            [name |-> Trim(form.subjects[kept[k]].name),
             chapters |-> ValidChapters(form, kept[k], env, base)]]

\* Mutant: an existing chapter keeps its old file reference
MergeChapterKeepsFile(chapters, newChapter) ==
    LET k == FirstTrue([n \in 1..Len(chapters) |->
                chapters[n].chapterNumber = newChapter.chapterNumber]) IN
    IF k = 0
    THEN Append(chapters, newChapter)
    ELSE [chapters EXCEPT ![k].summary = newChapter.summary,
                          ![k].quiz = newChapter.quiz]

\* studentexam.ts 272-284: merge one incoming chapter into a subject's chapter list
MergeChapter(chapters, newChapter) ==
    LET k == FirstTrue([n \in 1..Len(chapters) |->
                chapters[n].chapterNumber = newChapter.chapterNumber]) IN
    IF k = 0
    THEN Append(chapters, newChapter)
    ELSE [chapters EXCEPT ![k].notesFileUrl = newChapter.notesFileUrl,
                          ![k].publicId = newChapter.publicId,
                          ![k].summary = newChapter.summary,
                          ![k].quiz = newChapter.quiz]

RECURSIVE MergeChapters(_, _)
MergeChapters(chapters, newChapters) ==
    IF newChapters = <<>>
    THEN chapters
    ELSE MergeChapters(MergeChapter(chapters, Head(newChapters)), Tail(newChapters))

\* studentexam.ts 267-288: merge one incoming subject into the document's subject list
MergeSubject(subjects, newSubject) ==
    LET k == FirstTrue([n \in 1..Len(subjects) |-> subjects[n].name = newSubject.name]) IN
    IF k = 0
    THEN Append(subjects, newSubject)
    ELSE [subjects EXCEPT ![k].chapters = MergeChapters(@, newSubject.chapters)]

RECURSIVE MergeSubjects(_, _)
MergeSubjects(subjects, newSubjects) ==
    IF newSubjects = <<>>
    THEN subjects
    ELSE MergeSubjects(MergeSubject(subjects, Head(newSubjects)), Tail(newSubjects))

\* studentexam.ts 264-302: the document the handler is about to save
PostDocument(k, name, validSubjects) ==
    IF k > 0
    THEN [exams[k] EXCEPT !.subjects = MergeSubjects(@, validSubjects)]
    ELSE [exam |-> name, subjects |-> validSubjects]

\* studentexam.ts 172-288: everything before the save
ExamPostLookup(form, env) ==
    LET slots == UploadSlots(form)
        n == Cardinality(slots)
        uploaded == {nextFile + r : r \in {r \in 1..n : ~UploadFailed(env[r])}}
        validSubjects == ValidSubjects(form, env, nextFile)
        k == FindOne(form.exam)
    IN
    /\ FreeSlot # 0
    /\ UNCHANGED <<activityVars, exams, gen, clientVars>>
    /\ IF form.subjectsForm = "malformed"
       THEN /\ resp' = [op |-> "examPOST", status |-> 500, form |-> form, env |-> env]
            /\ UNCHANGED <<cloud, nextFile, pending>>
       ELSE IF form.exam = "" \/ form.subjectsForm # "array"
       THEN /\ resp' = [op |-> "examPOST", status |-> 400,
                        message |-> "Missing required fields: exam or subjects",
                        form |-> form, env |-> env]
            /\ UNCHANGED <<cloud, nextFile, pending>>
       ELSE /\ cloud' = cloud \cup uploaded
            /\ nextFile' = nextFile + n
            /\ IF \E r \in 1..n : UploadFailed(env[r])
               THEN /\ resp' = [op |-> "examPOST", status |-> 500,
                                form |-> form, env |-> env]
                    /\ UNCHANGED pending
               ELSE IF Len(validSubjects) = 0
               THEN /\ resp' = [op |-> "examPOST", status |-> 400,
                                message |-> "No valid subjects provided",
                                form |-> form, env |-> env]
                    /\ UNCHANGED pending
               ELSE /\ pending' = [pending EXCEPT ![FreeSlot] =
                            [kind |-> "POST", form |-> form, env |-> env,
                             validSubjects |-> validSubjects,
                             docId |-> k, doc |-> PostDocument(k, form.exam, validSubjects)]]
                    /\ resp' = NoResp

\* document.save(): the whole aggregate is written under its _id; a new
\* document is inserted at the end of the collection
SaveDocument(docId, doc) ==
    IF docId > 0 THEN [exams EXCEPT ![docId] = doc] ELSE Append(exams, doc)

\* Mutant: the save merges the request into the document as it is stored now
ExamPostSaveRemerge(i, saved) ==
    LET k == FindOne(pending[i].form.exam)
        doc == PostDocument(k, pending[i].form.exam, pending[i].validSubjects)
    IN
    /\ pending[i].kind = "POST"
    /\ pending' = [pending EXCEPT ![i] = Idle]
    /\ UNCHANGED <<activityVars, cloud, nextFile, gen, clientVars>>
    /\ IF saved
       THEN /\ exams' = SaveDocument(k, doc)
            /\ resp' = [op |-> "examPOST", status |-> IF k > 0 THEN 200 ELSE 201,
                        form |-> pending[i].form, env |-> pending[i].env, exam |-> doc]
       ELSE /\ UNCHANGED exams
            /\ resp' = [op |-> "examPOST", status |-> 500,
                        form |-> pending[i].form, env |-> pending[i].env]

\* studentexam.ts 289-313 (saved) and 314-323 (save threw)
ExamPostSave(i, saved) ==
    /\ pending[i].kind = "POST"
    /\ pending' = [pending EXCEPT ![i] = Idle]
    /\ UNCHANGED <<activityVars, cloud, nextFile, gen, clientVars>>
    /\ IF saved
       THEN /\ exams' = SaveDocument(pending[i].docId, pending[i].doc)
            /\ resp' = [op |-> "examPOST",
                        status |-> IF pending[i].docId > 0 THEN 200 ELSE 201,
                        form |-> pending[i].form, env |-> pending[i].env,
                        exam |-> pending[i].doc]
       ELSE /\ UNCHANGED exams
            /\ resp' = [op |-> "examPOST", status |-> 500,
                        form |-> pending[i].form, env |-> pending[i].env]

----------------------------------------------------------------------------
(* Exam route: PUT *)

\* studentexam.ts 479-486: the shape test of one quiz entry
ValidQuizItem(item) ==
    /\ item.question # ""
    /\ Len(item.options) >= 2
    /\ item.answer # ""

\* studentexam.ts 474-498: chapter.quiz after the optional quiz field is applied
UpdatedQuiz(oldQuiz, quizField) ==
    IF quizField.kind = "array" THEN SelectSeq(quizField.items, ValidQuizItem) ELSE oldQuiz

\* studentexam.ts 399-498: everything before the save
ExamPutLookup(form, env) ==
    LET k == FindOne(form.exam)
        si == IF k = 0 THEN 0
              ELSE FirstTrue([n \in 1..Len(exams[k].subjects) |->
                          exams[k].subjects[n].name = form.subject])
        ci == IF si = 0 THEN 0
              ELSE FirstTrue([n \in 1..Len(exams[k].subjects[si].chapters) |->
                          exams[k].subjects[si].chapters[n].chapterNumber = form.chapterNumber])
        chapter == exams[k].subjects[si].chapters[ci]
        \* 446-452: the old file is deleted first; a failed deletion is only logged
        afterDelete == IF form.notesFile /\ env.delete = "ok"
                       THEN cloud \ {chapter.publicId} ELSE cloud
        newId == nextFile + 1
        \* 460-470: file reference and summary of the new upload
        refreshed == IF form.notesFile
                     THEN [chapter EXCEPT !.notesFileUrl = newId, !.publicId = newId,
                                          !.summary = env.summary]
                     ELSE chapter
        updated == [refreshed EXCEPT !.quiz = UpdatedQuiz(@, form.quiz)]
    IN
    /\ FreeSlot # 0
    /\ UNCHANGED <<activityVars, exams, gen, clientVars>>
    /\ IF form.exam = "" \/ form.subject = "" \/ form.chapterNumber = NoNum
       THEN /\ resp' = [op |-> "examPUT", status |-> 400, form |-> form,
                        message |-> "Missing required fields: exam, subject, or chapterNumber"]
            /\ UNCHANGED <<cloud, nextFile, pending>>
       ELSE IF k = 0 \/ si = 0 \/ ci = 0
       THEN /\ resp' = [op |-> "examPUT", status |-> 404, form |-> form,
                        message |-> IF k = 0 THEN "Exam not found"
                                    ELSE IF si = 0 THEN "Subject not found"
                                    ELSE "Chapter not found"]
            /\ UNCHANGED <<cloud, nextFile, pending>>
       ELSE IF form.notesFile /\ env.upload # "ok"
       THEN \* 455-458: the upload threw or returned no url / public_id
            /\ cloud' = afterDelete
            /\ resp' = [op |-> "examPUT", status |-> 500, form |-> form]
            /\ UNCHANGED <<nextFile, pending>>
       ELSE /\ cloud' = IF form.notesFile THEN afterDelete \cup {newId} ELSE cloud
            /\ nextFile' = IF form.notesFile THEN newId ELSE nextFile
            /\ IF form.quiz.kind = "malformed"
               THEN /\ resp' = [op |-> "examPUT", status |-> 400, form |-> form,
                                message |-> "Invalid quiz data format"]
                    /\ UNCHANGED pending
               ELSE /\ pending' = [pending EXCEPT ![FreeSlot] =
                            [kind |-> "PUT", form |-> form, env |-> env, docId |-> k, chapter |-> updated,
                             doc |-> [exams[k] EXCEPT !.subjects[si].chapters[ci] = updated]]]
                    /\ resp' = NoResp

\* studentexam.ts 500-506 (saved) and 507-516 (save threw)
ExamPutSave(i, saved) ==
    /\ pending[i].kind = "PUT"
    /\ pending' = [pending EXCEPT ![i] = Idle]
    /\ UNCHANGED <<activityVars, cloud, nextFile, gen, clientVars>>
    /\ IF saved
       THEN /\ exams' = SaveDocument(pending[i].docId, pending[i].doc)
            /\ resp' = [op |-> "examPUT", status |-> 200, form |-> pending[i].form,
                        chapter |-> pending[i].chapter]
       ELSE /\ UNCHANGED exams
            /\ resp' = [op |-> "examPUT", status |-> 500, form |-> pending[i].form]

----------------------------------------------------------------------------
(* Exam route: DELETE *)

\* Mutant: splice(index) without a count removes everything from index on
SpliceToEnd(s, index) == SubSeq(s, 1, index - 1)

\* Array.prototype.splice(index, 1)
Splice(s, index) == [j \in 1..(Len(s) - 1) |-> IF j < index THEN s[j] ELSE s[j + 1]]

\* Mutant: deleteMany filters by exam and subject only
InScopeOfSubject(a, body) ==
    /\ a.exam = body.exam
    /\ a.subject = body.subject

\* studentexam.ts 577-581: the filter of ExamStudentActivity.deleteMany
InScope(a, body) ==
    /\ a.exam = body.exam
    /\ a.subject = body.subject
    /\ a.chapterNumber = body.chapterNumber

\* Mutant: the activity records are never deleted
DeleteNothing(body, outcome) == activities

\* studentexam.ts 576-586: deleteMany; a failure is only logged
DeleteActivities(body, outcome) ==
    IF outcome = "ok"
    THEN SelectSeq(activities, LAMBDA a : ~InScope(a, body))
    ELSE activities

\* studentexam.ts 520-586: everything before the save
ExamDeleteLookup(body, env) ==
    LET k == FindOne(body.exam)
        si == IF k = 0 THEN 0
              ELSE FirstTrue([n \in 1..Len(exams[k].subjects) |->
                          exams[k].subjects[n].name = body.subject])
        ci == IF si = 0 THEN 0
              ELSE FirstTrue([n \in 1..Len(exams[k].subjects[si].chapters) |->
                          exams[k].subjects[si].chapters[n].chapterNumber = body.chapterNumber])
        chapter == exams[k].subjects[si].chapters[ci]
    IN
    /\ FreeSlot # 0
    /\ UNCHANGED <<now, nextActId, exams, nextFile, gen, clientVars>>
    /\ IF body.exam = "" \/ body.subject = "" \/ body.chapterNumber = NoNum
       THEN /\ resp' = [op |-> "examDELETE", status |-> 400, body |-> body,
                        message |-> "Missing required fields: exam, subject, or chapterNumber"]
            /\ UNCHANGED <<activities, cloud, pending>>
       ELSE IF k = 0 \/ si = 0 \/ ci = 0
       THEN /\ resp' = [op |-> "examDELETE", status |-> 404, body |-> body,
                        message |-> IF k = 0 THEN "Exam not found"
                                    ELSE IF si = 0 THEN "Subject not found"
                                    ELSE "Chapter not found"]
            /\ UNCHANGED <<activities, cloud, pending>>
       ELSE \* 562-570: the file is deleted first; a failed deletion is only logged
            /\ cloud' = IF env.delete = "ok" THEN cloud \ {chapter.publicId} ELSE cloud
            /\ activities' = DeleteActivities(body, env.deleteMany)
            /\ pending' = [pending EXCEPT ![FreeSlot] =
                    [kind |-> "DELETE", body |-> body, env |-> env, docId |-> k,
                     doc |-> [exams[k] EXCEPT !.subjects[si].chapters = Splice(@, ci)]]]
            /\ resp' = NoResp

\* studentexam.ts 588-594 (saved) and 595-607 (save threw)
ExamDeleteSave(i, saved) ==
    /\ pending[i].kind = "DELETE"
    /\ pending' = [pending EXCEPT ![i] = Idle]
    /\ UNCHANGED <<activityVars, cloud, nextFile, gen, clientVars>>
    /\ IF saved
       THEN /\ exams' = SaveDocument(pending[i].docId, pending[i].doc)
            /\ resp' = [op |-> "examDELETE", status |-> 200,
                        body |-> pending[i].body, env |-> pending[i].env,
                        message |-> "Chapter deleted successfully"]
       ELSE /\ UNCHANGED exams
            /\ resp' = [op |-> "examDELETE", status |-> 500, body |-> pending[i].body]

----------------------------------------------------------------------------
(* Exam route: GET *)

\* studentexam.ts 346-350, 375-379: the optional chapter filter
ChaptersFor(subject, query) ==
    IF query.chapterNumber # NoNum
    THEN SelectSeq(subject.chapters, LAMBDA c : c.chapterNumber = query.chapterNumber)
    ELSE subject.chapters

\* studentexam.ts 351-362: the quiz payloads of the chapters that have a quiz
QuizPayloads(examId, doc, subject, query) ==
    LET chapters == SelectSeq(ChaptersFor(subject, query), LAMBDA c : Len(c.quiz) > 0) IN
    [j \in 1..Len(chapters) |->
        [examId |-> examId, exam |-> doc.exam, subjectName |-> subject.name,
         chapterNumber |-> chapters[j].chapterNumber, quiz |-> chapters[j].quiz,
         summary |-> chapters[j].summary]]

\* studentexam.ts 341-364: the flattened quiz list, over the matching documents
RECURSIVE Quizzes(_, _)
Quizzes(ids, query) ==
    IF ids = <<>> THEN <<>>
    ELSE LET doc == exams[Head(ids)]
             m == FirstTrue([n \in 1..Len(doc.subjects) |-> doc.subjects[n].name = query.subject])
         IN  (IF m = 0 THEN <<>> ELSE QuizPayloads(Head(ids), doc, doc.subjects[m], query))
             \o Quizzes(Tail(ids), query)

\* studentexam.ts 369-381: every matching document, cut down to the named subject
FilteredExam(doc, query) ==
    LET subjects == SelectSeq(doc.subjects, LAMBDA s : s.name = query.subject) IN
    [doc EXCEPT !.subjects =
        [j \in 1..Len(subjects) |->
            [subjects[j] EXCEPT !.chapters = ChaptersFor(subjects[j], query)]]]

\* studentexam.ts 327-385
ExamGET(query) ==
    LET ids == SelectSeq([k \in 1..Len(exams) |-> k],
                      LAMBDA k : query.exam = "" \/ exams[k].exam = query.exam)
    IN
    /\ UNCHANGED <<activityVars, examVars>>
    /\ resp' =
         IF query.quizOnly /\ query.subject # ""
         THEN [op |-> "examGET", status |-> 200, quizzes |-> Quizzes(ids, query)]
         ELSE IF query.subject # ""
         THEN [op |-> "examGET", status |-> 200,
               exams |-> [j \in 1..Len(ids) |-> FilteredExam(exams[ids[j]], query)]]
         ELSE [op |-> "examGET", status |-> 200,
               exams |-> [j \in 1..Len(ids) |-> exams[ids[j]]]]

----------------------------------------------------------------------------
(* Exams component: state, effects and handlers *)

\* exma.tsx 41-42: the signed-in user the component reads from useUser()
ClerkUserId == "u1"
ClerkUserName == "Ann"

\* Number.prototype.toString on an index or a chapter number is ToString of
\* the TLC module: the decimal digits of the integer

\* parseInt on the values the chapter selector holds; NaN is NotANumber
ParseInt(text) ==
    CASE text = "1" -> 1 [] text = "2" -> 2 [] text = "3" -> 3 [] OTHER -> NotANumber

\* exma.tsx 29-38: the component's state after mount. null is the empty
\* sequence. selectedChapterData holds the identity of the chapter object it
\* points to: the response that carried it (loads counts the responses
\* applied) and its place in that response's subject list
InitialPage ==
    [selectedExam |-> "", selectedSubject |-> "", selectedChapter |-> "",
     subjects |-> <<>>, selectedChapterData |-> <<>>, quiz |-> <<>>,
     userAnswers |-> <<>>, isLoading |-> FALSE, quizSubmitted |-> FALSE,
     quizScore |-> <<>>, viewMode |-> "notes", loads |-> 0]

\* exma.tsx 71-76 and part_000 80-85: the subjects of every returned document, in order
RECURSIVE AllSubjects(_)
AllSubjects(docs) ==
    IF Len(docs) = 0 THEN <<>>
    ELSE docs[1].subjects \o AllSubjects(Tail(docs))

\* exma.tsx 78-81 and part_000 87-91: new Map(entries).values() keeps one
\* subject per name, at the place of the name's first entry, holding the
\* name's last entry
UniqueSubjects(allSubjects) ==
    LET n == Len(allSubjects)
        firsts == SelectSeq([i \in 1..n |-> i],
                      LAMBDA i : \A j \in 1..(i - 1) : allSubjects[j].name # allSubjects[i].name)
        last(i) == CHOOSE j \in 1..n :
                      /\ allSubjects[j].name = allSubjects[i].name
                      /\ \A k \in (j + 1)..n : allSubjects[k].name # allSubjects[i].name
    IN [k \in 1..Len(firsts) |-> allSubjects[last(firsts[k])]]

\* exma.tsx 46-50 and 60-63: the effect on [selectedExam, userId] starts fetchSubjects
FetchEffect(old, new) ==
    IF new.selectedExam # old.selectedExam /\ new.selectedExam # ""
    THEN <<[kind |-> "fetchSubjects", exam |-> new.selectedExam]>>
    ELSE <<>>

\* exma.tsx 96-129: logNotesAccess up to its request, over the state of the render it closes over
LogNotesAccess(state) ==
    IF state.selectedExam = "" \/ state.selectedSubject = "" \/ state.selectedChapter = ""
    THEN <<>>
    ELSE IF ParseInt(state.selectedChapter) = NotANumber
    THEN <<>>
    ELSE <<[kind |-> "logNotesAccess",
            body |-> [userId |-> ClerkUserId, userName |-> ClerkUserName,
                      exam |-> state.selectedExam, subject |-> state.selectedSubject,
                      chapterNumber |-> ParseInt(state.selectedChapter),
                      activityType |-> "notes_access", quizResult |-> <<>>]]>>

\* exma.tsx 53-57: the effect on [selectedChapterData, userId, viewMode]
LogEffect(old, new) ==
    IF /\ \/ new.selectedChapterData # old.selectedChapterData
          \/ new.viewMode # old.viewMode
       /\ new.selectedChapterData # <<>>
       /\ new.viewMode = "notes"
    THEN LogNotesAccess(new)
    ELSE <<>>

\* A handler's state updates are applied in one render, the effects whose
\* dependencies changed run after it, and fetchSubjects sets isLoading (62)
Render(new, started) ==
    /\ page' = IF FetchEffect(page, new) # <<>> THEN [new EXCEPT !.isLoading = TRUE] ELSE new
    /\ calls' = calls \o started \o FetchEffect(page, new) \o LogEffect(page, new)

\* exma.tsx 146-157
HandleExamChange(value) ==
    /\ Render([page EXCEPT !.selectedExam = value, !.selectedSubject = "",
                           !.selectedChapter = "", !.subjects = <<>>,
                           !.selectedChapterData = <<>>, !.quiz = <<>>,
                           !.userAnswers = <<>>, !.quizSubmitted = FALSE,
                           !.quizScore = <<>>, !.viewMode = "notes"], <<>>)
    /\ resp' = NoResp
    /\ UNCHANGED <<activityVars, examVars, courses>>

\* exma.tsx 160-169
HandleSubjectChange(value) ==
    /\ Render([page EXCEPT !.selectedSubject = value, !.selectedChapter = "",
                           !.selectedChapterData = <<>>, !.quiz = <<>>,
                           !.userAnswers = <<>>, !.quizSubmitted = FALSE,
                           !.quizScore = <<>>, !.viewMode = "notes"], <<>>)
    /\ resp' = NoResp
    /\ UNCHANGED <<activityVars, examVars, courses>>

\* Array.prototype.find: the index of the first subject of that name, 0 if none
FindSubject(subjects, name) ==
    FirstTrue([i \in 1..Len(subjects) |-> subjects[i].name = name])

\* exma.tsx 175 and part_000 169: the first chapter whose number prints as the value
FindChapter(chapters, value) ==
    FirstTrue([i \in 1..Len(chapters) |->
                  ToString(chapters[i].chapterNumber) = value])

\* exma.tsx 180: at most ten questions are shown
MaxQuestions == 10

\* exma.tsx 179 and part_000 173: sort with a random comparator leaves the
\* entries in some order, in place
Shuffled(quiz, order) == [i \in 1..Len(quiz) |-> quiz[order[i]]]

\* exma.tsx 172-189; order: the order the random sort leaves the quiz in
HandleChapterChange(value, order) ==
    LET si == FindSubject(page.subjects, page.selectedSubject)
        ci == IF si = 0 THEN 0 ELSE FindChapter(page.subjects[si].chapters, value)
        reset == [page EXCEPT !.selectedChapter = value, !.userAnswers = <<>>,
                              !.quizSubmitted = FALSE, !.quizScore = <<>>,
                              !.viewMode = "notes"]
    IN
    /\ IF ci # 0
       THEN LET shuffledQuiz == Shuffled(page.subjects[si].chapters[ci].quiz, order) IN
            /\ order \in Perms(1..Len(page.subjects[si].chapters[ci].quiz))
            /\ Render([reset EXCEPT
                         !.subjects[si].chapters[ci].quiz = shuffledQuiz,
                         !.selectedChapterData =
                             <<[load |-> page.loads, subject |-> si, chapter |-> ci]>>,
                         !.quiz = SubSeq(shuffledQuiz, 1, Min(MaxQuestions, Len(shuffledQuiz)))],
                      <<>>)
       ELSE /\ order = <<>>
            /\ Render([reset EXCEPT !.selectedChapterData = <<>>, !.quiz = <<>>], <<>>)
    /\ resp' = NoResp
    /\ UNCHANGED <<activityVars, examVars, courses>>

\* exma.tsx 393 and 491: the quiz section is rendered
QuizShown == page.selectedChapterData # <<>> /\ page.viewMode = "quiz" /\ Len(page.quiz) > 0

\* exma.tsx 192-197 and part_000 186-191: { ...prev, [questionIndex]: answer }
WithAnswer(prev, questionIndex, answer) ==
    [key \in DOMAIN prev \cup {questionIndex} |->
        IF key = questionIndex THEN answer ELSE prev[key]]

\* exma.tsx 192-197, called by the quiz section
HandleAnswerChange(questionIndex, answer) ==
    /\ QuizShown
    /\ Render([page EXCEPT !.userAnswers = WithAnswer(@, questionIndex, answer)], <<>>)
    /\ resp' = NoResp
    /\ UNCHANGED <<activityVars, examVars, courses>>

\* Mutant: every answered question counts
ScoreOfAnswered(quiz, userAnswers) ==
    Cardinality({index \in 0..(Len(quiz) - 1) : ToString(index) \in DOMAIN userAnswers})

\* exma.tsx 219-221 and part_000 194-196: the reduce over the displayed quiz;
\* a key the answers do not have reads as undefined
Score(quiz, userAnswers) ==
    Cardinality({index \in 0..(Len(quiz) - 1) :
                    /\ ToString(index) \in DOMAIN userAnswers
                    /\ userAnswers[ToString(index)] = quiz[index + 1].answer})

\* exma.tsx 200-238: handleSubmitQuiz up to its request; the call keeps the
\* score and the quiz of the render it closes over
HandleSubmitQuiz ==
    /\ QuizShown
    /\ IF page.selectedExam = "" \/ page.selectedSubject = "" \/ page.selectedChapter = ""
       THEN Render(page, <<>>)
       ELSE IF ParseInt(page.selectedChapter) = NotANumber
       THEN Render(page, <<>>)
       ELSE Render(page,
              <<[kind |-> "handleSubmitQuiz",
                 score |-> Score(page.quiz, page.userAnswers),
                 quiz |-> page.quiz,
                 body |-> [userId |-> ClerkUserId, userName |-> ClerkUserName,
                           exam |-> page.selectedExam, subject |-> page.selectedSubject,
                           chapterNumber |-> ParseInt(page.selectedChapter),
                           activityType |-> "quiz_submission",
                           quizResult |->
                              <<[score |-> Score(page.quiz, page.userAnswers),
                                 totalQuestions |-> Len(page.quiz),
                                 answers |-> page.userAnswers]>>]]>>)
    /\ resp' = NoResp
    /\ UNCHANGED <<activityVars, examVars, courses>>

\* The calls in flight without the c-th
Settled(c) == SubSeq(calls, 1, c - 1) \o SubSeq(calls, c + 1, Len(calls))

\* exma.tsx 223-255: the request of handleSubmitQuiz reaches the activity
\* route and its response resumes the handler, or the fetch throws;
\* times: what `new Date()` can return
SubmitQuizReturns(c, delivered, times) ==
    /\ c \in 1..Len(calls)
    /\ calls[c].kind = "handleSubmitQuiz"
    /\ calls' = Settled(c)
    /\ UNCHANGED courses
    /\ IF delivered
       THEN /\ ActivityPOST(calls[c].body, times)
            /\ page' = IF resp'.status = 201
                       THEN [page EXCEPT !.quizSubmitted = TRUE,
                                         !.quizScore = <<[score |-> calls[c].score,
                                                          total |-> Len(calls[c].quiz)]>>]
                       ELSE page
       ELSE /\ resp' = NoResp
            /\ page' = page
            /\ UNCHANGED <<activityVars, examVars>>

\* exma.tsx 114-142: the request of logNotesAccess is served, or the fetch throws
LogNotesAccessReturns(c, delivered, times) ==
    /\ c \in 1..Len(calls)
    /\ calls[c].kind = "logNotesAccess"
    /\ calls' = Settled(c)
    /\ page' = page
    /\ UNCHANGED courses
    /\ IF delivered
       THEN ActivityPOST(calls[c].body, times)
       ELSE /\ resp' = NoResp
            /\ UNCHANGED <<activityVars, examVars>>

\* exma.tsx 67-91: what fetchSubjects does with the documents of its response
FetchedSubjects(state, docs) ==
    IF Len(docs) > 0
    THEN [state EXCEPT !.subjects = UniqueSubjects(AllSubjects(docs)),
                       !.loads = @ + 1, !.isLoading = FALSE]
    ELSE [state EXCEPT !.subjects = <<>>, !.isLoading = FALSE]

\* exma.tsx 63-91: the request of fetchSubjects is served by GET /api/notes and
\* its response resumes the call, or the fetch throws
FetchSubjectsReturns(c, delivered) ==
    /\ c \in 1..Len(calls)
    /\ calls[c].kind = "fetchSubjects"
    /\ calls' = Settled(c)
    /\ UNCHANGED courses
    /\ IF delivered
       THEN /\ ExamGET([exam |-> calls[c].exam, subject |-> "", chapterNumber |-> NoNum,
                        quizOnly |-> FALSE])
            /\ page' = FetchedSubjects(page, resp'.exams)
       ELSE /\ resp' = NoResp
            /\ page' = [page EXCEPT !.subjects = <<>>, !.isLoading = FALSE]
            /\ UNCHANGED <<activityVars, examVars>>

\* exma.tsx 259-261, called by the buttons of 428-448
ToggleViewMode(mode) ==
    /\ page.selectedChapterData # <<>>
    /\ mode = "quiz" => Len(page.quiz) > 0
    /\ Render([page EXCEPT !.viewMode = mode], <<>>)
    /\ resp' = NoResp
    /\ UNCHANGED <<activityVars, examVars, courses>>

----------------------------------------------------------------------------
(* Courses component: state, effects and handlers *)

\* part_000 26-43: the component's state after mount, and the requests that
\* await their response. The component is shown to an administrator (part_000
\* 52), who sees the unit controls of 376-391. The update dialog (235-267,
\* 298-318, 417-527) keeps its own state and is left out, and so is
\* logNotesAccess (104-127), whose request goes to a route outside these
\* sources and whose response changes no state
InitialCourses ==
    [selectedYear |-> "", selectedBranch |-> "", selectedSubject |-> "",
     selectedUnit |-> "", subjects |-> <<>>, selectedUnitData |-> <<>>,
     quiz |-> <<>>, userAnswers |-> <<>>, isLoading |-> FALSE,
     quizSubmitted |-> FALSE, quizScore |-> <<>>, viewMode |-> "notes",
     loads |-> 0, calls |-> <<>>]

\* part_000 55-59 and 67-73: the effect on [selectedYear, selectedBranch, userId]
CoursesFetchEffect(old, new) ==
    IF /\ new.selectedYear # old.selectedYear \/ new.selectedBranch # old.selectedBranch
       /\ new.selectedYear # ""
       /\ new.selectedBranch # ""
    THEN <<[kind |-> "fetchSubjects", year |-> new.selectedYear, branch |-> new.selectedBranch]>>
    ELSE <<>>

\* A handler's state updates are applied in one render, the effect on the
\* selection runs after it, and the calls the handler started are in flight
CoursesRender(new, started) ==
    /\ courses' =
         [new EXCEPT
            !.isLoading = IF CoursesFetchEffect(courses, new) # <<>> THEN TRUE ELSE @,
            !.calls = courses.calls \o started \o CoursesFetchEffect(courses, new)]
    /\ resp' = NoResp
    /\ UNCHANGED <<activityVars, examVars, page, calls>>

\* part_000 129-141
HandleYearChange(value) ==
    CoursesRender([courses EXCEPT !.selectedYear = value, !.selectedBranch = "",
                                  !.selectedSubject = "", !.selectedUnit = "",
                                  !.subjects = <<>>, !.selectedUnitData = <<>>,
                                  !.quiz = <<>>, !.userAnswers = <<>>,
                                  !.quizSubmitted = FALSE, !.quizScore = <<>>,
                                  !.viewMode = "notes"], <<>>)

\* part_000 143-153
HandleBranchChange(value) ==
    CoursesRender([courses EXCEPT !.selectedBranch = value, !.selectedSubject = "",
                                  !.selectedUnit = "", !.selectedUnitData = <<>>,
                                  !.quiz = <<>>, !.userAnswers = <<>>,
                                  !.quizSubmitted = FALSE, !.quizScore = <<>>,
                                  !.viewMode = "notes"], <<>>)

\* part_000 155-164
CoursesHandleSubjectChange(value) ==
    CoursesRender([courses EXCEPT !.selectedSubject = value, !.selectedUnit = "",
                                  !.selectedUnitData = <<>>, !.quiz = <<>>,
                                  !.userAnswers = <<>>, !.quizSubmitted = FALSE,
                                  !.quizScore = <<>>, !.viewMode = "notes"], <<>>)

\* part_000 169: the first unit whose number prints as the value
FindUnit(units, value) ==
    FirstTrue([i \in 1..Len(units) |->
                  ToString(units[i].unitNumber) = value])

\* part_000 166-184; order: the order the random sort leaves the quiz in
HandleUnitChange(value, order) ==
    LET si == FindSubject(courses.subjects, courses.selectedSubject)
        ui == IF si = 0 THEN 0 ELSE FindUnit(courses.subjects[si].units, value)
        reset == [courses EXCEPT !.selectedUnit = value, !.userAnswers = <<>>,
                                 !.quizSubmitted = FALSE, !.quizScore = <<>>,
                                 !.viewMode = "notes"]
    IN
    IF ui # 0
    THEN LET shuffledQuiz == Shuffled(courses.subjects[si].units[ui].quiz, order) IN
         /\ order \in Perms(1..Len(courses.subjects[si].units[ui].quiz))
         /\ CoursesRender([reset EXCEPT
                             !.subjects[si].units[ui].quiz = shuffledQuiz,
                             !.selectedUnitData =
                                 <<[load |-> courses.loads, subject |-> si, unit |-> ui]>>,
                             !.quiz = SubSeq(shuffledQuiz, 1,
                                             Min(MaxQuestions, Len(shuffledQuiz)))],
                          <<>>)
    ELSE /\ order = <<>>
         /\ CoursesRender([reset EXCEPT !.selectedUnitData = <<>>, !.quiz = <<>>], <<>>)

\* part_000 369 and 423: the quiz section is rendered
CoursesQuizShown ==
    courses.selectedUnitData # <<>> /\ courses.viewMode = "quiz" /\ Len(courses.quiz) > 0

\* part_000 186-191, called by the quiz section
CoursesHandleAnswerChange(questionIndex, answer) ==
    /\ CoursesQuizShown
    /\ CoursesRender([courses EXCEPT !.userAnswers = WithAnswer(@, questionIndex, answer)],
                     <<>>)

\* part_000 193-215: handleSubmitQuiz up to its request; the call keeps the
\* score and the quiz of the render it closes over
CoursesHandleSubmitQuiz ==
    /\ CoursesQuizShown
    /\ CoursesRender(courses,
         <<[kind |-> "handleSubmitQuiz",
            score |-> Score(courses.quiz, courses.userAnswers),
            quiz |-> courses.quiz,
            body |-> [userId |-> ClerkUserId, userName |-> ClerkUserName,
                      year |-> courses.selectedYear, branch |-> courses.selectedBranch,
                      subject |-> courses.selectedSubject,
                      unitNumber |-> ParseInt(courses.selectedUnit),
                      activityType |-> "quiz_submission",
                      quizResult |->
                         <<[score |-> Score(courses.quiz, courses.userAnswers),
                            totalQuestions |-> Len(courses.quiz),
                            answers |-> courses.userAnswers]>>]]>>)

\* part_000 231-233, called by the buttons of 394-415
CoursesToggleViewMode(mode) ==
    /\ courses.selectedUnitData # <<>>
    /\ mode = "quiz" => Len(courses.quiz) > 0
    /\ CoursesRender([courses EXCEPT !.viewMode = mode], <<>>)

\* part_000 269-283: handleDeleteUnit up to its request, once the
\* administrator has confirmed; the call keeps the selection it closes over
HandleDeleteUnit ==
    /\ courses.selectedUnitData # <<>>
    /\ CoursesRender(courses,
         <<[kind |-> "handleDeleteUnit",
            year |-> courses.selectedYear, branch |-> courses.selectedBranch,
            body |-> [year |-> courses.selectedYear, branch |-> courses.selectedBranch,
                      subject |-> courses.selectedSubject,
                      unitNumber |-> ParseInt(courses.selectedUnit)]]>>)

\* The calls of the Courses component in flight without the c-th
CoursesSettled(c) ==
    SubSeq(courses.calls, 1, c - 1) \o SubSeq(courses.calls, c + 1, Len(courses.calls))

\* The c-th call resumes: its state updates are applied in one render, the
\* calls it starts are in flight, and the effect on the selection does not
\* run, for the call changes neither year nor branch
CoursesResume(c, new, started) ==
    /\ courses' = [new EXCEPT !.calls = CoursesSettled(c) \o started]
    /\ resp' = NoResp
    /\ UNCHANGED <<activityVars, examVars, page, calls>>

\* part_000 284-295: the response of DELETE /api/course resumes
\* handleDeleteUnit; ok: the response's status is in the 2xx range. On
\* success the handler calls fetchSubjects (67-68) with the selection it closed over
DeleteUnitReturns(c, ok) ==
    /\ c \in 1..Len(courses.calls)
    /\ courses.calls[c].kind = "handleDeleteUnit"
    /\ IF ok
       THEN CoursesResume(c,
              [courses EXCEPT !.selectedUnit = "", !.selectedUnitData = <<>>,
                              !.quiz = <<>>, !.isLoading = TRUE],
              <<[kind |-> "fetchSubjects", year |-> courses.calls[c].year,
                 branch |-> courses.calls[c].branch]>>)
       ELSE CoursesResume(c, courses, <<>>)

\* part_000 216-228: the response of POST /api/student-activity resumes handleSubmitQuiz
CoursesSubmitQuizReturns(c, ok) ==
    /\ c \in 1..Len(courses.calls)
    /\ courses.calls[c].kind = "handleSubmitQuiz"
    /\ IF ok
       THEN CoursesResume(c,
              [courses EXCEPT !.quizSubmitted = TRUE,
                              !.quizScore = <<[score |-> courses.calls[c].score,
                                               total |-> Len(courses.calls[c].quiz)]>>],
              <<>>)
       ELSE CoursesResume(c, courses, <<>>)

\* part_000 74-102: the response of GET /api/course resumes fetchSubjects;
\* docs: the courses of the response, none when the response is an error
\* or the fetch throws
CoursesFetchSubjectsReturns(c, docs) ==
    /\ c \in 1..Len(courses.calls)
    /\ courses.calls[c].kind = "fetchSubjects"
    /\ CoursesResume(c, FetchedSubjects(courses, docs), <<>>)

----------------------------------------------------------------------------
(* Requests and environment outcomes the model draws from *)

GeneratedSummary == "Generated summary"

\* What the upload and the generation calls of one POSTed chapter return
PostOutcomes ==
    {[upload |-> u, summary |-> GeneratedSummary, quiz |-> <<Question>>] : u \in {"ok", "fail"}}

\* studentexam.ts 222-229: the extraction fails, or yields a text of no, one or two chunks
Extractions == {"fail", "empty", "short", "long"}

\* studentexam.ts 96-100 on pdfText: the placeholder text is one chunk
ChunkCount(extract) ==
    CASE extract = "empty" -> 0 [] extract = "long" -> 2 [] OTHER -> 1

\* The replies the service gives to a summary request and to a quiz request;
\* an outcome holds one reply for each of the ChunkCount chunks of its text
SummaryReplies ==
    {[kind |-> "text", text |-> "A"], [kind |-> "malformed", text |-> ""],
     [kind |-> "error", text |-> ""]}
QuizReplies ==
    {[kind |-> "text", text |-> GeneratedQuizText], [kind |-> "text", text |-> "A"],
     [kind |-> "malformed", text |-> ""], [kind |-> "error", text |-> ""]}

\* studentexam.ts 206-233: what the steps of one chapter give, and the summary
\* and quiz computed from them
ChapterOutcome(upload, extract, summaryReplies, quizReplies) ==
    [upload |-> upload, extract |-> extract,
     summaryReplies |-> summaryReplies, quizReplies |-> quizReplies,
     summary |-> GenerateContent("summary", summaryReplies),
     quiz |-> ParseQuizData(GenerateContent("quiz", quizReplies))]

DegradedOutcomes ==
    {ChapterOutcome(u, e, sr, qr) :
        u \in {"ok", "fail"}, e \in {"fail", "short"},
        sr \in [1..1 -> SummaryReplies], qr \in [1..1 -> QuizReplies]}
    \cup
    {ChapterOutcome(u, "empty", <<>>, <<>>) : u \in {"ok", "fail"}}
    \cup
    {ChapterOutcome("ok", "long", sr, qr) :
        sr \in [1..2 -> SummaryReplies], qr \in [1..2 -> QuizReplies]}

ChapterSlots == [chapterNumber : ChapterNumbers, file : BOOLEAN]
FileSlots == [chapterNumber : ChapterNumbers, file : {TRUE}]

ChapterLists == {<<>>} \cup {<<c>> : c \in ChapterSlots}
                    \cup {<<c, d>> : c \in ChapterSlots, d \in ChapterSlots}

RequestSubjectNames == {" ", "Physics", "Math "}

\* Forms that fail the checks made before any chapter is processed
RejectedForms ==
    {[exam |-> e, subjectsForm |-> f, subjects |-> <<>>] :
        e \in {"", "GATE"}, f \in {"array", "null", "object", "malformed"}}

\* Multipart forms a client can send to POST /api/notes: one subject with up to
\* two chapter slots, or two subjects with one uploaded chapter each
ExamForms ==
    {[exam |-> "GATE", subjectsForm |-> "array", subjects |-> <<[name |-> nm, chapters |-> cs]>>] :
        nm \in {"Physics", "Math "}, cs \in ChapterLists}
    \cup
    {[exam |-> "GATE", subjectsForm |-> "array",
      subjects |-> <<[name |-> n1, chapters |-> <<c1>>], [name |-> n2, chapters |-> <<c2>>]>>] :
        n1 \in RequestSubjectNames, n2 \in RequestSubjectNames,
        c1 \in FileSlots, c2 \in FileSlots}
    \cup RejectedForms

\* A form with the outcome of each of its uploads, in request order
WithOutcomes(forms) ==
    {req \in [form : forms, env : [1..2 -> PostOutcomes]] :
        \A r \in 1..2 : r > Cardinality(UploadSlots(req.form)) => req.env[r].upload = "ok"}

ExamRequests == WithOutcomes(ExamForms)

\* The forms of the full-system specification: one chapter of one subject
CoreForms ==
    {[exam |-> "GATE", subjectsForm |-> "array",
      subjects |-> <<[name |-> "Physics", chapters |-> <<c>>]>>] : c \in ChapterSlots}
    \cup RejectedForms

CoreRequests == WithOutcomes(CoreForms)

\* The one request that creates the chapter the activity specification deletes
SeedRequests ==
    {req \in CoreRequests :
        /\ req.form.subjects # <<>>
        /\ req.form.subjects[1].chapters = <<[chapterNumber |-> 1, file |-> TRUE]>>
        /\ req.env[1].upload = "ok"}

\* The requests that create the chapters the update and delete requests address
ChapterSeeds ==
    {req \in CoreRequests :
        /\ req.form.subjects # <<>>
        /\ req.form.subjects[1].chapters[1].file
        /\ req.env[1].upload = "ok"}

\* What the external service answers to one chunk request: a candidate text,
\* a reply without candidate text, or no reply (network error, quota)
ChunkReplies ==
    {[kind |-> "text", text |-> t] : t \in {"A", "B"}}
    \cup {[kind |-> "malformed", text |-> ""], [kind |-> "error", text |-> ""]}

\* One chapter of one subject, with every outcome of its upload, extraction and generation
DegradeRequests ==
    {[form |-> [exam |-> "GATE", subjectsForm |-> "array",
                subjects |-> <<[name |-> "Physics",
                                chapters |-> <<[chapterNumber |-> 1, file |-> TRUE]>>]>>],
      env |-> [r \in 1..2 |-> o]] : o \in DegradedOutcomes}

\* Requests that can overlap: one uploaded chapter of one subject, no failure
RaceRequests ==
    {req \in WithOutcomes(
        {[exam |-> "GATE", subjectsForm |-> "array",
          subjects |-> <<[name |-> nm, chapters |-> <<c>>]>>] :
            nm \in {"Physics", "Math "}, c \in FileSlots}) :
        req.env[1].upload = "ok"}

BadItem == [question |-> "Pick one", options |-> <<"Yes">>, answer |-> "Yes"]

\* The optional quiz field of a PUT form: absent, not JSON, JSON but no array, an array
QuizFields ==
    {[kind |-> k, items |-> <<>>] : k \in {"absent", "malformed", "object", "array"}}
    \cup {[kind |-> "array", items |-> <<Question, BadItem>>]}

PutForms ==
    [exam : ExamNames, subject : {"Physics", "Math"}, chapterNumber : ChapterNumbers,
     notesFile : BOOLEAN, quiz : QuizFields]
    \cup
    {[exam |-> "", subject |-> "Physics", chapterNumber |-> 1, notesFile |-> FALSE,
      quiz |-> [kind |-> "absent", items |-> <<>>]],
     [exam |-> "GATE", subject |-> "Physics", chapterNumber |-> NoNum, notesFile |-> FALSE,
      quiz |-> [kind |-> "absent", items |-> <<>>]]}

\* What the file deletion, the upload and the summary generation of a PUT return
PutOutcomes ==
    [delete : {"ok", "fail"}, upload : {"ok", "fail"},
     summary : {GeneratedSummary, FallbackSummary}]

PutRequests ==
    {req \in [form : PutForms, env : PutOutcomes] :
        ~req.form.notesFile =>
            req.env = [delete |-> "ok", upload |-> "ok", summary |-> GeneratedSummary]}

\* Update requests of the chapter specification: each address without a file
\* and without a quiz, every quiz field for one chapter, a new file for that
\* chapter under every outcome, and the forms with a missing field
NoQuiz == [kind |-> "absent", items |-> <<>>]

ChapterPutRequests ==
    {req \in PutRequests :
        \/ ~req.form.notesFile /\ req.form.quiz = NoQuiz
        \/ /\ req.form.subject = "Physics" /\ req.form.chapterNumber = 1
           /\ req.form.notesFile => req.form.quiz.kind \in {"absent", "malformed"}}

DeleteBodies ==
    [exam : ExamNames \cup {""}, subject : {"Physics", "Math"},
     chapterNumber : ChapterNumbers \cup {NoNum}]

DeleteOutcomes == [delete : {"ok", "fail"}, deleteMany : {"ok", "fail"}]

\* Delete requests of the chapter specification
ChapterDeleteBodies ==
    {b \in DeleteBodies : b.exam = "" => (b.subject = "Physics" /\ b.chapterNumber = 1)}

ExamQueries ==
    [exam : {"", "GATE"}, subject : {"", "Physics"}, chapterNumber : {NoNum, 1},
     quizOnly : BOOLEAN]

\* JSON bodies a client can send to POST /api/student-activity-exam: the
\* well-formed ones, and one body for each way of failing the checks
ValidBodies ==
    [userId : UserIds, userName : UserNames, exam : ExamNames, subject : {"Physics"},
     chapterNumber : ChapterNumbers, activityType : ActivityTypes,
     quizResult : {<<>>} \cup {<<q>> : q \in QuizResults}]

SampleBody == CHOOSE b \in ValidBodies : b.activityType = "quiz_submission" /\ b.quizResult # <<>>

DefectiveBodies ==
    {[SampleBody EXCEPT !.userId = ""], [SampleBody EXCEPT !.userName = ""],
     [SampleBody EXCEPT !.exam = ""], [SampleBody EXCEPT !.subject = ""],
     [SampleBody EXCEPT !.chapterNumber = NoNum], [SampleBody EXCEPT !.activityType = ""],
     [SampleBody EXCEPT !.activityType = "video_watch"]}

\* A body that passes the handler's checks and fails the schema's cast
IllTypedBodies == {[SampleBody EXCEPT !.chapterNumber = NotANumber]}

ActivityBodies == ValidBodies \cup DefectiveBodies \cup IllTypedBodies

\* Activity logged for the chapters of the seeds
ChapterBodies ==
    {b \in ValidBodies :
        b.userId = "u1" /\ b.activityType = "notes_access" /\ b.quizResult = <<>>}

\* Query strings a client can send to GET /api/student-activity-exam
ActivityQueries ==
    [userId : UserIds \cup {""}, isAdmin : {"", "true"}]

----------------------------------------------------------------------------
(* Specifications *)

MaxActs == 2
MaxLogged == 1
MaxClock == 1
MaxLogActs == 3
MaxLogClock == 2
MaxUploads == 1
MaxFiles == 3
MaxRaceFiles == 3
MaxChapterFiles == 2
MaxChunks == 3
MaxDegradeFiles == 2
MaxInFlight == 2
MaxQuizFiles == 2
MaxCalls == 2
MaxLoads == 1
MaxQuizLogged == 1
MaxFetchFiles == 2
MaxFetchLoads == 3
MaxCourseCalls == 2
MaxCourseLoads == 3

Init ==
    /\ activities = <<>>
    /\ now = 0
    /\ nextActId = 0
    /\ exams = <<>>
    /\ cloud = {}
    /\ nextFile = 0
    /\ pending = [i \in 1..MaxInFlight |-> Idle]
    /\ gen = NoCall
    /\ resp = NoResp
    /\ page = InitialPage
    /\ calls = <<>>
    /\ courses = InitialCourses

NonePending == \A i \in DOMAIN pending : pending[i] = Idle

\* What `new Date()` can return
Times == {now, Min(now + 1, MaxClock)}

\* The whole system; requests of the exam route are served one at a time
Next ==
    \/ \E body \in ActivityBodies :
          /\ nextActId < MaxLogged
          /\ ActivityPOST(body, Times)
          /\ UNCHANGED clientVars
    \/ \E query \in ActivityQueries : ActivityGET(query)
    \/ \E req \in CoreRequests :
          /\ NonePending
          /\ nextFile + Cardinality(UploadSlots(req.form)) <= MaxUploads
          /\ ExamPostLookup(req.form, req.env)
    \/ \E i \in 1..MaxInFlight, saved \in BOOLEAN : ExamPostSave(i, saved)
    \/ \E req \in PutRequests :
          /\ NonePending
          /\ req.form.notesFile => nextFile < MaxUploads
          /\ ExamPutLookup(req.form, req.env)
    \/ \E i \in 1..MaxInFlight, saved \in BOOLEAN : ExamPutSave(i, saved)
    \/ \E body \in DeleteBodies, env \in DeleteOutcomes :
          /\ NonePending
          /\ ExamDeleteLookup(body, env)
    \/ \E i \in 1..MaxInFlight, saved \in BOOLEAN : ExamDeleteSave(i, saved)
    \/ \E query \in ExamQueries :
          /\ ExamGET(query)
          /\ UNCHANGED clientVars

Spec == Init /\ [][Next]_vars

\* The activity route, with one chapter that is created and deleted
NextActivity ==
    \/ \E body \in ActivityBodies :
          /\ nextActId < MaxActs
          /\ ActivityPOST(body, Times)
          /\ UNCHANGED clientVars
    \/ \E query \in ActivityQueries : ActivityGET(query)
    \/ \E req \in SeedRequests :
          /\ NonePending
          /\ nextFile + Cardinality(UploadSlots(req.form)) <= MaxUploads
          /\ ExamPostLookup(req.form, req.env)
    \/ \E i \in 1..MaxInFlight, saved \in BOOLEAN : ExamPostSave(i, saved)
    \/ \E body \in DeleteBodies, env \in DeleteOutcomes :
          /\ NonePending
          /\ ExamDeleteLookup(body, env)
    \/ \E i \in 1..MaxInFlight, saved \in BOOLEAN : ExamDeleteSave(i, saved)

SpecActivity == Init /\ [][NextActivity]_vars

\* The life of a chapter: created, updated and deleted, with activity logged
\* for it; requests of the exam route are served one at a time
NextChapter ==
    \/ \E body \in ChapterBodies :
          /\ nextActId < MaxLogged
          /\ ActivityPOST(body, {now})
          /\ UNCHANGED clientVars
    \/ \E req \in ChapterSeeds :
          /\ NonePending
          /\ nextFile + Cardinality(UploadSlots(req.form)) <= MaxChapterFiles
          /\ ExamPostLookup(req.form, req.env)
    \/ \E i \in 1..MaxInFlight, saved \in BOOLEAN : ExamPostSave(i, saved)
    \/ \E req \in ChapterPutRequests :
          /\ NonePending
          /\ req.form.notesFile => nextFile < MaxChapterFiles
          /\ ExamPutLookup(req.form, req.env)
    \/ \E i \in 1..MaxInFlight, saved \in BOOLEAN : ExamPutSave(i, saved)
    \/ \E body \in ChapterDeleteBodies, env \in DeleteOutcomes :
          /\ NonePending
          /\ ExamDeleteLookup(body, env)
    \/ \E i \in 1..MaxInFlight, saved \in BOOLEAN : ExamDeleteSave(i, saved)

SpecChapter == Init /\ [][NextChapter]_vars

\* One call of the content generator after another
NextGen ==
    \/ \E type \in {"summary", "quiz"}, n \in 0..MaxChunks : GenStart(type, n)
    \/ \E k \in 1..MaxChunks, reply \in ChunkReplies : ChunkReply(k, reply)

SpecGen == Init /\ [][NextGen]_vars

\* Page views of one chapter by each user
LogBodies ==
    {b \in ValidBodies :
        /\ b.userName = "Ann" /\ b.exam = "GATE" /\ b.chapterNumber = 1
        /\ b.activityType = "notes_access" /\ b.quizResult = <<>>}

\* The activity log written by servers whose clocks are not synchronised:
\* `new Date()` of a request can be earlier than that of the request before
NextLog ==
    \/ \E body \in LogBodies :
          /\ nextActId < MaxLogActs
          /\ ActivityPOST(body, 0..MaxLogClock)
          /\ UNCHANGED clientVars
    \/ \E query \in ActivityQueries : ActivityGET(query)

SpecLog == Init /\ [][NextLog]_vars

\* The generated texts the sanitizer is called on: a JSON value between a
\* lead and a trail, and texts that hold no JSON value
QuizTexts ==
    {lead \o text \o trail : lead \in Leads, text \in JsonTexts, trail \in Trails}
    \cup {lead \o text \o trail :
             lead \in Leads, trail \in Trails,
             text \in {"", "A", "{quiz}", GeneratedQuizText \o " " \o GeneratedQuizText}}

\* One call of the quiz sanitizer, on any of the texts
NextSanitize == \E quizData \in QuizTexts : resp = NoResp /\ Sanitize(quizData)

SpecSanitize == Init /\ [][NextSanitize]_vars

\* Create-or-merge requests whose extraction and generation calls degrade
NextDegrade ==
    \/ \E req \in DegradeRequests :
          /\ NonePending
          /\ nextFile + Cardinality(UploadSlots(req.form)) <= MaxDegradeFiles
          /\ ExamPostLookup(req.form, req.env)
    \/ \E i \in 1..MaxInFlight, saved \in BOOLEAN : ExamPostSave(i, saved)

SpecDegrade == Init /\ [][NextDegrade]_vars

\* Create-or-merge requests served one at a time
NextPost ==
    \/ \E req \in ExamRequests :
          /\ NonePending
          /\ nextFile + Cardinality(UploadSlots(req.form)) <= MaxFiles
          /\ ExamPostLookup(req.form, req.env)
    \/ \E i \in 1..MaxInFlight, saved \in BOOLEAN : ExamPostSave(i, saved)

SpecPost == Init /\ [][NextPost]_vars

\* Create-or-merge requests that overlap
NextRace ==
    \/ \E req \in RaceRequests :
          /\ nextFile + Cardinality(UploadSlots(req.form)) <= MaxRaceFiles
          /\ ExamPostLookup(req.form, req.env)
    \/ \E i \in 1..MaxInFlight, saved \in BOOLEAN : ExamPostSave(i, saved)

SpecRace == Init /\ [][NextRace]_vars

\* The chapters the Exams component shows: one request creates a subject with
\* a chapter of two questions and a chapter of one question
SecondQuestion ==
    [question |-> "What is the capital of Spain?",
     options |-> <<"Berlin", "Madrid">>,
     answer |-> "Madrid"]

QuizSeed ==
    [form |-> [exam |-> "GATE", subjectsForm |-> "array",
               subjects |-> <<[name |-> "Physics",
                               chapters |-> <<[chapterNumber |-> 1, file |-> TRUE],
                                              [chapterNumber |-> 2, file |-> TRUE]>>]>>],
     env |-> <<[upload |-> "ok", summary |-> GeneratedSummary,
                quiz |-> <<Question, SecondQuestion>>],
               [upload |-> "ok", summary |-> GeneratedSummary, quiz |-> <<Question>>]>>]

\* The orders a random sort can leave a quiz of the seeds in
QuizOrders == UNION {Perms(1..n) : n \in 0..2}

\* The answers the student gives: Paris to the first question shown, Berlin
\* to the second
AnswerInputs == {<<"0", "Paris">>, <<"1", "Berlin">>}

\* The Exams component over the seeded chapters: selection, answers,
\* submission, and the responses of its requests in any order
NextQuiz ==
    \/ /\ exams = <<>>
       /\ NonePending
       /\ nextFile + 2 <= MaxQuizFiles
       /\ ExamPostLookup(QuizSeed.form, QuizSeed.env)
    \/ \E i \in 1..MaxInFlight, saved \in BOOLEAN : ExamPostSave(i, saved)
    \/ \E value \in {"GATE"} :
          /\ Len(calls) < MaxCalls
          /\ page.loads + Cardinality({c \in 1..Len(calls) : calls[c].kind = "fetchSubjects"})
                < MaxLoads
          /\ HandleExamChange(value)
    \/ \E c \in 1..MaxCalls, delivered \in BOOLEAN : FetchSubjectsReturns(c, delivered)
    \/ \E value \in {"Physics"} : HandleSubjectChange(value)
    \/ \E value \in {"1", "2"}, order \in QuizOrders :
          /\ Len(calls) < MaxCalls
          /\ HandleChapterChange(value, order)
    \/ \E mode \in {"notes", "quiz"} :
          /\ Len(calls) < MaxCalls
          /\ ToggleViewMode(mode)
    \/ \E input \in AnswerInputs : HandleAnswerChange(input[1], input[2])
    \/ /\ Len(calls) < MaxCalls
       /\ HandleSubmitQuiz
    \/ \E c \in 1..MaxCalls, delivered \in BOOLEAN :
          /\ delivered => nextActId < MaxQuizLogged
          /\ SubmitQuizReturns(c, delivered, {now})
    \/ \E c \in 1..MaxCalls, delivered \in BOOLEAN :
          /\ delivered => nextActId < MaxQuizLogged
          /\ LogNotesAccessReturns(c, delivered, {now})

SpecQuiz == Init /\ [][NextQuiz]_vars

\* The requests that create the two exams the selector of the Exams component
\* offers, each with a subject of its own
FetchSeeds ==
    {[form |-> [exam |-> seed[1], subjectsForm |-> "array",
                subjects |-> <<[name |-> seed[2],
                                chapters |-> <<[chapterNumber |-> 1, file |-> TRUE]>>]>>],
      env |-> [r \in 1..2 |->
                 [upload |-> "ok", summary |-> GeneratedSummary, quiz |-> <<Question>>]]] :
        seed \in {<<"GATE", "Physics">>, <<"CAT", "Math">>}}

\* The Exams component switching between two exams while its subject
\* requests are answered in any order
NextFetch ==
    \/ \E req \in FetchSeeds :
          /\ NonePending
          /\ FindOne(req.form.exam) = 0
          /\ nextFile < MaxFetchFiles
          /\ ExamPostLookup(req.form, req.env)
    \/ \E i \in 1..MaxInFlight, saved \in BOOLEAN : ExamPostSave(i, saved)
    \/ \E value \in {"GATE", "CAT"} :
          /\ Len(calls) < MaxCalls
          /\ page.loads + Len(calls) < MaxFetchLoads
          /\ HandleExamChange(value)
    \/ \E c \in 1..MaxCalls, delivered \in BOOLEAN : FetchSubjectsReturns(c, delivered)

SpecFetch == Init /\ [][NextFetch]_vars

\* What GET /api/course answers: an error or no course, the course with a
\* unit that has a quiz and a unit that has none, and that course after the
\* first unit was deleted
CourseUnits ==
    <<[unitNumber |-> 1, notesFileUrl |-> "u1.pdf", summary |-> GeneratedSummary,
       quiz |-> <<Question>>],
      [unitNumber |-> 2, notesFileUrl |-> "u2.pdf", summary |-> GeneratedSummary,
       quiz |-> <<>>]>>

CourseReplies ==
    {<<>>,
     <<[year |-> "SE", branch |-> "CS", subjects |-> <<[name |-> "DSA", units |-> CourseUnits]>>]>>,
     <<[year |-> "SE", branch |-> "CS",
        subjects |-> <<[name |-> "DSA", units |-> Tail(CourseUnits)]>>]>>}

\* The Courses component: selection, quiz, unit deletion, and the responses
\* of its requests in any order
NextCourses ==
    \/ \E value \in {"SE"} : HandleYearChange(value)
    \/ \E value \in {"CS"} :
          /\ Len(courses.calls) < MaxCourseCalls
          /\ courses.loads + Len(courses.calls) < MaxCourseLoads
          /\ HandleBranchChange(value)
    \/ \E value \in {"DSA"} : CoursesHandleSubjectChange(value)
    \/ \E value \in {"1", "2"}, order \in QuizOrders : HandleUnitChange(value, order)
    \/ \E input \in AnswerInputs : CoursesHandleAnswerChange(input[1], input[2])
    \/ /\ Len(courses.calls) < MaxCourseCalls
       /\ CoursesHandleSubmitQuiz
    \/ \E mode \in {"notes", "quiz"} : CoursesToggleViewMode(mode)
    \/ /\ Len(courses.calls) < MaxCourseCalls
       /\ courses.loads + Len(courses.calls) < MaxCourseLoads
       /\ HandleDeleteUnit
    \/ \E c \in 1..MaxCourseCalls, ok \in BOOLEAN : DeleteUnitReturns(c, ok)
    \/ \E c \in 1..MaxCourseCalls, ok \in BOOLEAN : CoursesSubmitQuizReturns(c, ok)
    \/ \E c \in 1..MaxCourseCalls, docs \in CourseReplies : CoursesFetchSubjectsReturns(c, docs)

SpecCourses == Init /\ [][NextCourses]_vars

----------------------------------------------------------------------------
(* Claims about the activity route *)

\* C1: an activity GET without userId and without isAdmin=true is answered 401
\* and carries no records; with isAdmin=true it is answered 200 and carries
\* every record of the log, once each, whatever userId was supplied.
C1_AdminSeesEverything ==
    resp.op = "activityGET" =>
        /\ (resp.query.userId = "" /\ resp.query.isAdmin # "true") =>
              (resp.status = 401 /\ "activities" \notin DOMAIN resp)
        /\ resp.query.isAdmin = "true" =>
              /\ resp.status = 200
              /\ Range(resp.activities) = Range(activities)
              /\ Len(resp.activities) = Len(activities)

\* An admin query that names u1 has returned a log holding another user's record
C1_Witness ==
    /\ resp.op = "activityGET"
    /\ resp.query = [userId |-> "u1", isAdmin |-> "true"]
    /\ Len(activities) = 2
    /\ \E a \in Range(resp.activities) : a.userId = "u2"
    /\ \E a \in Range(resp.activities) : a.userId = "u1"

\* C2: an activity GET by a non-admin with userId u is answered with exactly the
\* records of the log owned by u, once each: the response is a function of u's
\* records alone, whatever else the log holds.
C2_OwnRecordsOnly ==
    (resp.op = "activityGET" /\ resp.query.isAdmin # "true" /\ resp.query.userId # "") =>
        /\ resp.status = 200
        /\ Range(resp.activities) = {a \in Range(activities) : a.userId = resp.query.userId}
        /\ Len(resp.activities) = Cardinality(Range(resp.activities))

\* u1 has queried a log that holds a record of u2 as well, after a chapter deletion
C2_Witness ==
    /\ resp.op = "activityGET"
    /\ resp.query = [userId |-> "u1", isAdmin |-> ""]
    /\ Len(resp.activities) = 1
    /\ \E a \in Range(activities) : a.userId = "u2"
    /\ \E k \in 1..Len(exams) : \E i \in 1..Len(exams[k].subjects) :
          exams[k].subjects[i].chapters = <<>>

\* C3: every record of the log has a quiz result if and only if its activity
\* kind is quiz_submission.
C3_QuizResultIffSubmission ==
    \A a \in Range(activities) :
        (a.quizResult # <<>>) <=> (a.activityType = "quiz_submission")

----------------------------------------------------------------------------
(* Claims about the create-or-merge request of the exam route *)

\* The (subject index, chapter index) pairs of a form whose chapter came with a file
RequestedSlots(form) ==
    {p \in (1..Len(form.subjects)) \X (1..2) :
        /\ p[2] <= Len(form.subjects[p[1]].chapters)
        /\ form.subjects[p[1]].chapters[p[2]].file}

SlotName(form, p) == Trim(form.subjects[p[1]].name)
SlotNumber(form, p) == form.subjects[p[1]].chapters[p[2]].chapterNumber

\* The chapter records a request built for (subject name, chapter number)
Sent(incoming, name, number) ==
    {c \in UNION {Range(v.chapters) : v \in {v \in Range(incoming) : v.name = name}} :
        c.chapterNumber = number}

HasChapter(doc, name, number) ==
    \E s \in Range(doc.subjects) :
        s.name = name /\ \E c \in Range(s.chapters) : c.chapterNumber = number

HasSentChapter(doc, incoming, name, number) ==
    \E s \in Range(doc.subjects) :
        s.name = name /\ \E c \in Range(s.chapters) : c \in Sent(incoming, name, number)

RECURSIVE TotalChapters(_)
TotalChapters(subjects) ==
    IF subjects = <<>> THEN 0
    ELSE Len(Head(subjects).chapters) + TotalChapters(Tail(subjects))

\* A create-or-merge request in slot i is answered 200 (merged) in this step
Merged(i) ==
    /\ pending[i].kind = "POST" /\ pending[i].docId > 0
    /\ pending'[i] = Idle
    /\ resp'.op = "examPOST" /\ resp'.status = 200

\* A create-or-merge request in slot i is answered 200 or 201 in this step
Accepted(i) ==
    /\ pending[i].kind = "POST"
    /\ pending'[i] = Idle
    /\ resp'.op = "examPOST" /\ resp'.status \in {200, 201}

\* What was in the document before the merge stays where it was: the same
\* subjects in the same places, the same chapter numbers in the same places,
\* each chapter unchanged unless the request sent one for its subject and number
FramePreserved(old, new, incoming) ==
    /\ new.exam = old.exam
    /\ Len(new.subjects) >= Len(old.subjects)
    /\ \A si \in 1..Len(old.subjects) :
          LET os == old.subjects[si]
              ns == new.subjects[si]
          IN  /\ ns.name = os.name
              /\ Len(ns.chapters) >= Len(os.chapters)
              /\ \A ci \in 1..Len(os.chapters) :
                    /\ ns.chapters[ci].chapterNumber = os.chapters[ci].chapterNumber
                    /\ \/ ns.chapters[ci] = os.chapters[ci]
                       \/ ns.chapters[ci] \in Sent(incoming, os.name, os.chapters[ci].chapterNumber)
              /\ \A ci \in (Len(os.chapters) + 1)..Len(ns.chapters) :
                    /\ ns.chapters[ci] \in Sent(incoming, os.name, ns.chapters[ci].chapterNumber)
                    /\ \A c \in Range(os.chapters) :
                          c.chapterNumber # ns.chapters[ci].chapterNumber
    /\ \A si \in (Len(old.subjects) + 1)..Len(new.subjects) :
          /\ \A s \in Range(old.subjects) : s.name # new.subjects[si].name
          /\ \A c \in Range(new.subjects[si].chapters) :
                c \in Sent(incoming, new.subjects[si].name, c.chapterNumber)

\* C6 as stated: after a merge answered 200, every requested (subject, chapter
\* number) that had a file is in the document with the request's file reference,
\* summary and quiz, and what the document held before and the request did not
\* name is unchanged and in the same order.
C6_MergeAddsEveryChapter ==
    [][\A i \in DOMAIN pending :
          Merged(i) =>
             LET form == pending[i].form
                 incoming == pending[i].validSubjects
                 old == exams[pending[i].docId]
                 new == exams'[pending[i].docId]
             IN  /\ \A p \in RequestedSlots(form) :
                       HasSentChapter(new, incoming, SlotName(form, p), SlotNumber(form, p))
                 /\ FramePreserved(old, new, incoming)]_vars

\* C6 amended: the same, for the requested chapters whose subject has a
\* non-blank name; a subject sent with a blank name is skipped with its chapters.
C6_MergeAddsEveryNamedChapter ==
    [][\A i \in DOMAIN pending :
          Merged(i) =>
             LET form == pending[i].form
                 incoming == pending[i].validSubjects
                 old == exams[pending[i].docId]
                 new == exams'[pending[i].docId]
             IN  /\ \A p \in RequestedSlots(form) :
                       SlotName(form, p) # "" =>
                          HasSentChapter(new, incoming, SlotName(form, p), SlotNumber(form, p))
                 /\ FramePreserved(old, new, incoming)]_vars

\* A merge has overwritten one chapter in place, skipped a subject sent with a
\* blank name, and left another subject alone
C6_Witness ==
    /\ resp.op = "examPOST" /\ resp.status = 200
    /\ Len(resp.form.subjects) = 2
    /\ resp.form.subjects[1].name = "Physics"
    /\ resp.form.subjects[2].name = " "
    /\ Len(exams) = 1
    /\ Len(exams[1].subjects) = 2
    /\ exams[1].subjects[1].name = "Physics"
    /\ exams[1].subjects[1].chapters[1].publicId = 3
    /\ exams[1].subjects[2].chapters[1].publicId = 2

\* C7: in every stored exam document, subject names are unique.
C7_SubjectNamesUnique ==
    \A k \in 1..Len(exams) :
        \A i, j \in 1..Len(exams[k].subjects) :
            exams[k].subjects[i].name = exams[k].subjects[j].name => i = j

\* C8: in every subject of every stored exam document, chapter numbers are unique.
C8_ChapterNumbersUnique ==
    \A k \in 1..Len(exams) :
        \A s \in Range(exams[k].subjects) :
            \A i, j \in 1..Len(s.chapters) :
                s.chapters[i].chapterNumber = s.chapters[j].chapterNumber => i = j

\* C9: the store holds at most one document per exam name.
C9_OneDocumentPerExam ==
    \A k1, k2 \in 1..Len(exams) : exams[k1].exam = exams[k2].exam => k1 = k2

\* C10 as stated: in an accepted create-or-merge request every chapter that
\* came with a file is in the resulting document, and a new document holds
\* exactly as many chapters as the request had files.
C10_MissingOnlyWithoutFile ==
    [][\A i \in DOMAIN pending :
          Accepted(i) =>
             LET form == pending[i].form
                 doc == exams'[IF pending[i].docId > 0 THEN pending[i].docId ELSE Len(exams')]
             IN  /\ \A p \in RequestedSlots(form) :
                       HasChapter(doc, SlotName(form, p), SlotNumber(form, p))
                 /\ resp'.status = 201 =>
                       TotalChapters(doc.subjects) = Cardinality(RequestedSlots(form))]_vars

\* C10 amended: in an accepted create-or-merge request every chapter that came
\* with a file under a subject of non-blank name is in the resulting document,
\* and a new document holds exactly as many chapters as the request had such
\* files: a chapter is missing only if its file was absent or its subject's
\* name was blank.
C10_MissingOnlyWithoutFileOrName ==
    [][\A i \in DOMAIN pending :
          Accepted(i) =>
             LET form == pending[i].form
                 doc == exams'[IF pending[i].docId > 0 THEN pending[i].docId ELSE Len(exams')]
                 named == {p \in RequestedSlots(form) : SlotName(form, p) # ""}
             IN  /\ \A p \in named : HasChapter(doc, SlotName(form, p), SlotNumber(form, p))
                 /\ resp'.status = 201 => TotalChapters(doc.subjects) = Cardinality(named)]_vars

\* A new document was created from a request of two chapters, one without a file
C10_Witness ==
    /\ resp.op = "examPOST" /\ resp.status = 201
    /\ Len(resp.form.subjects) = 1
    /\ Len(resp.form.subjects[1].chapters) = 2
    /\ resp.form.subjects[1].chapters[1].file
    /\ ~resp.form.subjects[1].chapters[2].file
    /\ Len(exams) = 1
    /\ TotalChapters(exams[1].subjects) = 1

----------------------------------------------------------------------------
(* Claims about overlapping requests, and about chapter update and delete *)

Stored(exam, subject, number) ==
    \E d \in Range(exams) :
        /\ d.exam = exam
        /\ \E s \in Range(d.subjects) :
              s.name = subject /\ \E c \in Range(s.chapters) : c.chapterNumber = number

\* The request names an exam, a subject and a chapter number
Addressed(r) == r.exam # "" /\ r.subject # "" /\ r.chapterNumber # NoNum

\* C12: a chapter update or a chapter delete that names an exam, subject or
\* chapter number which is not stored is answered 404, and the exam documents,
\* the file store and the activity log are as they were; and a 404 is only
\* ever the answer to such a request.
C12_NotFoundChangesNothing ==
    [][/\ (resp'.op = "examPUT" /\ pending' = pending /\ Addressed(resp'.form)) =>
             /\ (resp'.status = 404) <=>
                   ~Stored(resp'.form.exam, resp'.form.subject, resp'.form.chapterNumber)
             /\ (resp'.status = 404) =>
                   (exams' = exams /\ cloud' = cloud /\ activities' = activities)
       /\ (resp'.op = "examDELETE" /\ pending' = pending /\ Addressed(resp'.body)) =>
             /\ (resp'.status = 404) <=>
                   ~Stored(resp'.body.exam, resp'.body.subject, resp'.body.chapterNumber)
             /\ (resp'.status = 404) =>
                   (exams' = exams /\ cloud' = cloud /\ activities' = activities)]_vars

\* A delete of chapter 2 of a stored subject that holds only chapter 1 was
\* answered 404, with a file stored and an activity logged
C12_Witness ==
    /\ resp.op = "examDELETE" /\ resp.status = 404
    /\ resp.message = "Chapter not found"
    /\ resp.body.chapterNumber = 2
    /\ cloud # {}
    /\ activities # <<>>
    /\ Len(exams) = 1

\* C13: a chapter update whose quiz list holds an entry that fails the shape
\* rule (non-empty question, at least two options, non-empty answer) is never
\* answered 200: the whole update is rejected.
C13_InvalidQuizRejected ==
    (resp.op = "examPUT" /\ resp.status = 200) =>
        \A item \in Range(resp.form.quiz.items) :
            item.question # "" /\ Len(item.options) >= 2 /\ item.answer # ""

\* The document new is the document old without one chapter of that number in
\* the first subject of that name, everything else where and as it was
RemovedExactly(old, new, subject, number) ==
    /\ new.exam = old.exam
    /\ Len(new.subjects) = Len(old.subjects)
    /\ \E si \in 1..Len(old.subjects) :
          /\ old.subjects[si].name = subject
          /\ \A sj \in 1..Len(old.subjects) : sj # si => new.subjects[sj] = old.subjects[sj]
          /\ new.subjects[si].name = subject
          /\ \E ci \in 1..Len(old.subjects[si].chapters) :
                /\ old.subjects[si].chapters[ci].chapterNumber = number
                /\ Len(new.subjects[si].chapters) = Len(old.subjects[si].chapters) - 1
                /\ \A cj \in 1..Len(new.subjects[si].chapters) :
                      new.subjects[si].chapters[cj] =
                         old.subjects[si].chapters[IF cj < ci THEN cj ELSE cj + 1]

\* C14: a chapter delete that addresses a stored chapter is never turned away,
\* whatever the file deletion and the activity cleanup do; the document it
\* saves is the stored one without exactly that chapter, and when it is
\* answered 200 that document is what the store holds.
C14_DeleteRemovesExactlyTheChapter ==
    [][/\ (resp'.op = "examDELETE" /\ pending' = pending /\ Addressed(resp'.body)) =>
             ~Stored(resp'.body.exam, resp'.body.subject, resp'.body.chapterNumber)
       /\ \A i \in DOMAIN pending :
             /\ (pending[i] = Idle /\ pending'[i].kind = "DELETE") =>
                   RemovedExactly(exams[pending'[i].docId], pending'[i].doc,
                                  pending'[i].body.subject, pending'[i].body.chapterNumber)
             /\ (pending[i].kind = "DELETE" /\ pending'[i] = Idle /\ resp'.status = 200) =>
                   /\ Len(exams') = Len(exams)
                   /\ RemovedExactly(exams[pending[i].docId], exams'[pending[i].docId],
                                     pending[i].body.subject, pending[i].body.chapterNumber)
                   /\ \A k \in 1..Len(exams) :
                         k # pending[i].docId => exams'[k] = exams[k]]_vars

\* A delete was answered 200 although both the file deletion and the activity
\* cleanup failed; the other chapter of the subject is still stored
C14_Witness ==
    /\ resp.op = "examDELETE" /\ resp.status = 200
    /\ resp.env = [delete |-> "fail", deleteMany |-> "fail"]
    /\ Len(exams) = 1
    /\ Len(exams[1].subjects[1].chapters) = 1
    /\ exams[1].subjects[1].chapters[1].chapterNumber # resp.body.chapterNumber
    /\ cloud = {1, 2}

\* C15 as stated: when a chapter delete has been answered 200, the chapter is
\* not stored and the activity log holds no record of its exam, subject and
\* chapter number, whatever the file deletion and the activity cleanup did.
C15_CascadeAlways ==
    (resp.op = "examDELETE" /\ resp.status = 200) =>
        /\ ~Stored(resp.body.exam, resp.body.subject, resp.body.chapterNumber)
        /\ \A a \in Range(activities) :
              ~(/\ a.exam = resp.body.exam
                /\ a.subject = resp.body.subject
                /\ a.chapterNumber = resp.body.chapterNumber)

\* C15 amended: the cleanup step of a chapter delete leaves no record of the
\* chapter's exam, subject and chapter number in the log when the activity
\* deletion succeeded, and leaves the log as it was when it failed; whatever
\* the file deletion did, the document that is saved does not hold the
\* chapter, and it is what the store holds once the delete is answered 200.
C15_CascadeWhenCleanupSucceeds ==
    [][\A i \in DOMAIN pending :
          /\ (pending[i] = Idle /\ pending'[i].kind = "DELETE") =>
                LET body == pending'[i].body IN
                /\ IF pending'[i].env.deleteMany = "ok"
                   THEN \A a \in Range(activities') :
                           ~(/\ a.exam = body.exam
                             /\ a.subject = body.subject
                             /\ a.chapterNumber = body.chapterNumber)
                   ELSE activities' = activities
                /\ \A s \in Range(pending'[i].doc.subjects) :
                      s.name = body.subject =>
                         \A c \in Range(s.chapters) : c.chapterNumber # body.chapterNumber
          /\ (pending[i].kind = "DELETE" /\ pending'[i] = Idle /\ resp'.status = 200) =>
                exams'[pending[i].docId] = pending[i].doc]_vars

\* A delete was answered 200 after its cleanup removed the one logged record,
\* while the deletion of the chapter's file failed
C15_Witness ==
    /\ resp.op = "examDELETE" /\ resp.status = 200
    /\ resp.env = [delete |-> "fail", deleteMany |-> "ok"]
    /\ nextActId = 1
    /\ activities = <<>>
    /\ ~Stored(resp.body.exam, resp.body.subject, resp.body.chapterNumber)

----------------------------------------------------------------------------
(* Claims C16..C18: the content generator *)

SomeReply(kind) == \E k \in 1..Len(gen.replies) : gen.replies[k].kind = kind

\* C16: as soon as one chunk request of a call has failed, the call has
\* returned exactly the static fallback of its mode, whatever the other
\* chunks answered; and a call has returned nothing while no request has
\* failed and some request is still outstanding.
C16_OneFailureGivesFallback ==
    /\ SomeReply("error") =>
           gen.result = <<IF gen.type = "summary"
                          THEN "Summary generation failed."
                          ELSE FallbackQuizText>>
    /\ gen.result # <<>> => SomeReply("error") \/ ~SomeReply("waiting")

\* A three-chunk summary call: one chunk answered a text, one failed, one is outstanding
C16_Witness ==
    /\ gen.type = "summary"
    /\ Len(gen.replies) = 3
    /\ SomeReply("text") /\ SomeReply("error") /\ SomeReply("waiting")
    /\ gen.result = <<"Summary generation failed.">>

\* C17: a reply that arrives but carries no candidate text makes the call
\* return the static fallback of its mode.
C17_MalformedGivesFallback ==
    (SomeReply("malformed") /\ gen.result # <<>>) =>
        gen.result = <<Fallback(gen.type)>>

\* C18: when every chunk request has succeeded, the call returns the texts
\* of the chunks joined by one space in chunk index order, in whatever order
\* the requests completed.
C18_JoinedInIndexOrder ==
    (gen.type # "none" /\ ~SomeReply("error") /\ ~SomeReply("waiting")) =>
        gen.result = <<Join([k \in 1..Len(gen.replies) |->
                              IF gen.replies[k].kind = "text"
                              THEN gen.replies[k].text ELSE ""])>>

\* The third chunk completed first and the first chunk last
C18_Witness ==
    /\ gen.order = <<3, 2, 1>>
    /\ gen.replies[1].text = "A" /\ gen.replies[2].text = "B" /\ gen.replies[3].text = "A"
    /\ gen.result = <<"A B A">>

----------------------------------------------------------------------------
(* Claims C19, C20: create-or-merge under failure *)

\* The chapters stored under this address, in any document
StoredChapters(docs, exam, subject, number) ==
    {c \in UNION {Range(v.chapters) :
                    v \in {v \in UNION {Range(d.subjects) : d \in {d \in Range(docs) : d.exam = exam}} :
                              v.name = subject}} :
        c.chapterNumber = number}

\* The upload of every file of the request succeeded
AllUploaded(form, env) ==
    \A r \in 1..Cardinality(UploadSlots(form)) : env[r].upload = "ok"

\* C19: a create-or-merge request whose files were all uploaded is answered
\* before the save only when it names no exam, no subject list or no subject
\* with a name and a file; and when its save succeeds it is answered 200 or
\* 201 and its chapter is stored, with the fixed summary when a summary
\* request failed and the fixed question when a quiz request failed: for
\* every outcome of the extraction and of the summary and quiz requests.
C19_GenerationNeverAborts ==
    [][/\ (resp'.op = "examPOST" /\ pending' = pending
             /\ AllUploaded(resp'.form, resp'.env)) =>
            /\ resp'.status = 400
            /\ \/ resp'.form.exam = ""
               \/ resp'.form.subjectsForm # "array"
               \/ UploadSlots(resp'.form) = {}
       /\ \A i \in 1..MaxInFlight :
            ExamPostSave(i, TRUE) =>
                /\ resp'.status \in {200, 201}
                /\ \A p \in UploadSlots(resp'.form) :
                     LET outcome == resp'.env[SlotRank(resp'.form, p[1], p[2])]
                         stored == StoredChapters(exams', resp'.form.exam,
                                                  SlotName(resp'.form, p),
                                                  SlotNumber(resp'.form, p))
                     IN  /\ stored # {}
                         /\ \A c \in stored :
                              /\ (\E k \in DOMAIN outcome.summaryReplies :
                                     outcome.summaryReplies[k].kind = "error")
                                   => c.summary = "Summary generation failed."
                              /\ (\E k \in DOMAIN outcome.quizReplies :
                                     outcome.quizReplies[k].kind = "error")
                                   => /\ Len(c.quiz) = 1
                                      /\ c.quiz[1].question.text = "What is the capital of France?"
                                      /\ Len(c.quiz[1].options.items) = 4
                                      /\ c.quiz[1].answer.text = "Paris"
      ]_vars

\* A chapter is created although its extraction, its summary request and its
\* quiz request all failed
C19_Witness ==
    /\ resp.op = "examPOST" /\ resp.status = 201
    /\ resp.env[1].extract = "fail"
    /\ resp.env[1].summaryReplies[1].kind = "error"
    /\ resp.env[1].quizReplies[1].kind = "error"
    /\ \E c \in StoredChapters(exams, "GATE", "Physics", 1) :
          c.summary = FallbackSummary /\ Len(c.quiz) = 1

\* The files uploaded for the create-or-merge request answered in this step
AnsweredFiles ==
    ((nextFile + 1)..nextFile')
    \cup UNION {{c.publicId : c \in UNION {Range(v.chapters) : v \in Range(pending[i].validSubjects)}} :
                  i \in {i \in 1..MaxInFlight : pending[i].kind = "POST" /\ pending'[i] = Idle}}

\* C20: a create-or-merge request that is answered 400 or 500 leaves the exam
\* documents as they were, and no stored chapter refers to a file uploaded
\* for it; a request that names an exam and a subject list and has a file
\* whose upload failed is answered 500, whichever of its other uploads
\* succeeded.
C20_RejectedPostStoresNothing ==
    [][resp'.op = "examPOST" =>
         /\ resp'.status \notin {200, 201} =>
               /\ exams' = exams
               /\ \A d \in Range(exams') : FilesOf(d) \cap AnsweredFiles = {}
         /\ (/\ resp'.form.exam # ""
             /\ resp'.form.subjectsForm = "array"
             /\ ~AllUploaded(resp'.form, resp'.env)) => resp'.status = 500
      ]_vars

\* Two files were sent, the first was uploaded and the second was not: the
\* request is answered 500, the first file is in the file store and no
\* document refers to it
C20_Witness ==
    /\ resp.op = "examPOST" /\ resp.status = 500
    /\ resp.form.subjectsForm = "array"
    /\ Cardinality(UploadSlots(resp.form)) = 2
    /\ resp.env[1].upload = "ok" /\ resp.env[2].upload = "fail"
    /\ nextFile - 1 \in cloud
    /\ \A d \in Range(exams) : nextFile - 1 \notin FilesOf(d)

----------------------------------------------------------------------------
(* Claims C21..C23: the quiz sanitizer *)

\* The texts that hold this value once the fences and the blanks around them
\* are removed and the text is cut down to its braces
Written(value) ==
    IF value.type = "object"
    THEN {lead \o Stringify(value) \o trail : lead \in Leads, trail \in Trails}
    ELSE {lead \o Stringify(value) \o trail :
             lead \in {"", " ", FenceOpen}, trail \in {"", " ", FenceClose}}

\* The texts that hold each value of the model
WrittenTexts == [value \in JsonValues |-> Written(value)]

\* The value of the model that the text of the call holds, if any: a sequence of length 0 or 1
Held ==
    IF \E value \in JsonValues : resp.quizData \in WrittenTexts[value]
    THEN <<CHOOSE value \in JsonValues : resp.quizData \in WrittenTexts[value]>>
    ELSE <<>>

\* The value is an object whose quiz is a list
HoldsQuizList(held) ==
    /\ held # <<>>
    /\ held[1].type = "object"
    /\ "quiz" \in DOMAIN held[1]
    /\ held[1].quiz.type = "array"

\* The entry is an object with a non-empty string question, an options list
\* of at least two elements and a non-empty string answer
PassesValidation(entry) ==
    /\ entry.type = "object"
    /\ entry.question.type = "string" /\ entry.question.text # ""
    /\ entry.options.type = "array" /\ Len(entry.options.items) >= 2
    /\ entry.answer.type = "string" /\ entry.answer.text # ""

\* C21: every call of the sanitizer returns a list of entries of the parsed
\* text, and it returns the empty list for every text that holds no JSON
\* value once cleaned and for every text whose value is not an object with
\* a quiz list.
C21_NoQuizListGivesEmpty ==
    resp.op = "parseQuizData" =>
        /\ \A k \in 1..Len(resp.result) : resp.result[k] \in QuizEntries
        /\ ~HoldsQuizList(Held) => resp.result = <<>>

\* A fenced text whose quiz is not a list, a text that is not JSON inside its
\* braces: both were answered with the empty list
C21_Witness ==
    /\ resp.op = "parseQuizData"
    /\ resp.quizData \in {FenceOpen \o "{\"quiz\":\"none\"}" \o FenceClose,
                          "Here is the quiz: {quiz} Enjoy!"}
    /\ resp.result = <<>>

\* C22: every entry the sanitizer returns has a non-empty string question, a
\* non-empty string answer and an options list of at least two elements
\* that are all strings.
C22_ReturnedEntriesWellFormed ==
    resp.op = "parseQuizData" =>
        \A k \in 1..Len(resp.result) :
            /\ PassesValidation(resp.result[k])
            /\ \A n \in 1..Len(resp.result[k].options.items) :
                  resp.result[k].options.items[n].type = "string"

\* C23: for every text that holds an object with a quiz list, the sanitizer
\* returns the entries of that list that pass validation, in their order; an
\* entry that fails, null included, is dropped alone.
C23_ExactlyTheValidEntries ==
    (resp.op = "parseQuizData" /\ HoldsQuizList(Held)) =>
        resp.result = SelectSeq(Held[1].quiz.items, PassesValidation)

----------------------------------------------------------------------------
(* Claim C24: the order of the activity log *)

\* C24: in every answer of the activity GET, a record with a later timestamp
\* stands before every record with an earlier timestamp, whatever the order
\* in which the records were appended.
C24_NewestFirst ==
    (resp.op = "activityGET" /\ resp.status = 200) =>
        \A i \in DOMAIN resp.activities, j \in DOMAIN resp.activities :
            resp.activities[i].timestamp > resp.activities[j].timestamp => i < j

\* Three records were returned; the newest was appended first and the oldest second
C24_Witness ==
    /\ resp.op = "activityGET" /\ resp.status = 200
    /\ Len(resp.activities) = 3
    /\ resp.activities[1].id = 1 /\ resp.activities[2].id = 3 /\ resp.activities[3].id = 2
    /\ resp.activities[1].timestamp > resp.activities[2].timestamp
    /\ resp.activities[2].timestamp > resp.activities[3].timestamp

----------------------------------------------------------------------------
(* Claims about failed updates and deletions of a chapter *)

\* C26: after a PUT that is answered with an error (400 for a quiz that does
\* not parse, 500 for a failed upload or a failed save), the file referenced
\* by the persisted chapter is still in storage: when the handler answers
\* before its save, no stored file of the chapter has left storage, and when
\* it answers for a failed save, the stored chapter's file is in storage
C26_ErrorKeepsPersistedFile ==
    [][(/\ resp'.op = "examPUT"
        /\ \/ resp'.status = 500
           \/ resp'.status = 400 /\ resp'.message = "Invalid quiz data format")
       => \A c \in StoredChapters(exams', resp'.form.exam, resp'.form.subject,
                                  resp'.form.chapterNumber) :
             /\ (pending' = pending /\ c.publicId \in cloud) => c.publicId \in cloud'
             /\ pending' # pending => c.publicId \in cloud']_vars

\* C27: a chapter DELETE whose final save fails (500) leaves the chapter
\* persisted and has removed nothing: the chapter's file is still in storage
\* and no activity record is missing from the log
C27_FailedDeleteRemovesNothing ==
    [][(resp'.op = "examDELETE" /\ resp'.status = 500)
       => /\ \A c \in StoredChapters(exams', resp'.body.exam, resp'.body.subject,
                                     resp'.body.chapterNumber) :
                c.publicId \in cloud'
          /\ \A id \in 1..nextActId' : \E k \in 1..Len(activities') : activities'[k].id = id]_vars

----------------------------------------------------------------------------
(* Claims about the Exams and Courses components *)

\* C25: a quiz submission carries, and the activity route logs, a score equal
\* to the number of indices i at which the answer given under the key String(i)
\* equals the answer of question i of the quiz displayed when the student
\* submitted, and a total equal to the length of that quiz; 0 <= score <= total
C25_ScoreCountsMatchingAnswers ==
    [][/\ \A c \in 1..Len(calls') :
            (Len(calls') = Len(calls) + 1 /\ c = Len(calls')
                /\ calls'[c].kind = "handleSubmitQuiz")
            => /\ calls'[c].quiz = page.quiz
               /\ calls'[c].body.quizResult[1].answers = page.userAnswers
       /\ \A c \in 1..Len(calls) :
            (calls[c].kind = "handleSubmitQuiz" /\ calls' = Settled(c)
                /\ Len(activities') = Len(activities) + 1)
            => LET logged == activities'[Len(activities')].quizResult[1]
                   shown == calls[c].quiz
                   matching == {i \in 0..(Len(shown) - 1) :
                                   /\ ToString(i) \in DOMAIN logged.answers
                                   /\ logged.answers[ToString(i)] = shown[i + 1].answer}
               IN /\ activities'[Len(activities')].activityType = "quiz_submission"
                  /\ logged.score = Cardinality(matching)
                  /\ logged.totalQuestions = Len(shown)
                  /\ 0 <= logged.score
                  /\ logged.score <= logged.totalQuestions]_vars

\* Paris and Berlin were answered to a quiz whose answers are Paris and
\* Madrid, and the submission was logged with score 1 of 2
C25_Witness ==
    /\ Len(page.quiz) = 2
    /\ page.quiz[1].answer = "Paris"
    /\ page.quiz[2].answer = "Madrid"
    /\ page.userAnswers = ("0" :> "Paris" @@ "1" :> "Berlin")
    /\ page.quizSubmitted
    /\ \E k \in 1..Len(activities) :
          /\ activities[k].activityType = "quiz_submission"
          /\ activities[k].quizResult =
                <<[score |-> 1, totalQuestions |-> 2,
                   answers |-> ("0" :> "Paris" @@ "1" :> "Berlin")]>>

\* C28: in the Exams component, once no subject request is in flight, every
\* subject held in state is a subject of the stored document of the exam that
\* is selected: a response for an exam selected before never replaces the
\* subjects of the current selection
C28_SubjectsOfSelectedExam ==
    (\A c \in 1..Len(calls) : calls[c].kind # "fetchSubjects")
    => \A s \in Range(page.subjects) :
          \E d \in Range(exams) : d.exam = page.selectedExam /\ s \in Range(d.subjects)

\* C29: in the Exams component, whenever quizSubmitted is true, quizScore is
\* not null, its total is the length of the quiz displayed, and the log holds
\* a quiz submission with that score for the exam, subject and chapter that
\* are selected
C29_SubmittedReportsCurrentQuiz ==
    page.quizSubmitted
    => /\ page.quizScore # <<>>
       /\ page.quizScore[1].total = Len(page.quiz)
       /\ \E k \in 1..Len(activities) :
             /\ activities[k].activityType = "quiz_submission"
             /\ activities[k].exam = page.selectedExam
             /\ activities[k].subject = page.selectedSubject
             /\ activities[k].chapterNumber = ParseInt(page.selectedChapter)
             /\ activities[k].quizResult # <<>>
             /\ activities[k].quizResult[1].score = page.quizScore[1].score

\* C30: in the Courses component, viewMode is quiz only while a unit is
\* selected and the quiz displayed is not empty
C30_QuizModeNeedsUnitAndQuiz ==
    courses.viewMode = "quiz"
    => /\ courses.selectedUnit # ""
       /\ courses.selectedUnitData # <<>>
       /\ Len(courses.quiz) > 0

====
